---------------------------- MODULE Spec2Model ----------------------------
(***************************************************************************)
(* A model of ConFindr's contamination detection (alignment_confindr.py):  *)
(* the genus screener, the pileup heterozygosity rule, the classifier      *)
(* write_output, the membership tables and the genus databases built from  *)
(* them, best-allele selection, the dependency check, and the per-sample   *)
(* main loop with its temporary directories, report file and error         *)
(* handling.                                                               *)
(*                                                                         *)
(* Strings that the program builds or splits are modelled as sequences of  *)
(* tokens: a genus, gene or allele name is one token and the separators    *)
(* ":" "," "_" are tokens of their own, so joining and splitting are       *)
(* computed, not assumed.                                                  *)
(***************************************************************************)
EXTENDS Integers, Sequences, FiniteSets, TLC

VARIABLES
    pc,                \* position of the main program / of the current sample
    paired_reads,      \* list of discovered pairs (sample names)
    unpaired_reads,    \* list of discovered unpaired files (sample names)
    idx,               \* index of the sample being processed in its list
    report,            \* content of confindr_report.csv, a sequence of lines
    tmpdirs,           \* sample names whose temporary directory exists
    db_files,          \* genera G for which <G>_db.fasta exists
    screen_output,     \* genus labels of the current mash screen report
    genus,             \* genus string of the current sample
    snv_list,          \* evidence list of the current sample
    max_kmers,         \* max solid k-mer count of the current sample
    sample_database,   \* reference chosen for the current sample
    steps,             \* steps executed so far for the current sample
    failed,            \* some external tool exited non-zero for this sample
    bam,               \* whether the aligner output of the current pass is usable
    gene_alleles_to_use, \* gene -> [allele, read count] of the current sample
    pileup,            \* contig -> pileup columns of the second mapping
    cycle,             \* loop variable i of the subsampling cycles
    num_kmers,         \* k-mers surviving the cutoff in the current cycle
    column,            \* a pileup column handed to find_if_multibase
    base_dict,         \* what find_if_multibase returned for column
    path,              \* the external tools found on $PATH
    profiles_file,     \* lines of the membership table read by the table readers
    errors,            \* dependencies reported missing by the dependency check
    exit_code,         \* exit status of the program, None while it runs
    output_dir,        \* whether the output directory exists
    fasta,             \* FASTA file -> identifiers of its records, in file order
    allele_list,       \* what the table reader returned
    read_counts,       \* bamfile.count(contig) for the contigs of the database
    rmlst,             \* identifiers of the records of the sample's rmlst.fasta
    stdout,            \* what the search of one k-mer printed, as parsed records
    present,           \* what present_in_db returned for stdout
    input_kmers,       \* lines of the k-mer count file handed to rename_kmers
    output_kmers,      \* lines of the file rename_kmers wrote
    cutoff,            \* least count a k-mer needs to be kept
    fastq_files,       \* names of the files the input directory holds
    forward_id,        \* token marking forward read files
    reverse_id         \* token marking reverse read files

vars == <<pc, paired_reads, unpaired_reads, idx, report, tmpdirs, db_files,
          screen_output, genus, snv_list, max_kmers, sample_database, steps,
          failed, bam, gene_alleles_to_use, pileup, cycle, num_kmers,
          column, base_dict, path, profiles_file, errors, exit_code,
          output_dir, fasta, allele_list, read_counts, rmlst, stdout,
          present, input_kmers, output_kmers, cutoff, fastq_files,
          forward_id, reverse_id>>

\* What the program is given and never writes.
environment == <<path, profiles_file>>

\* What the functions exercised on their own read and write.
utilities == <<stdout, present, input_kmers, output_kmers, cutoff,
               fastq_files, forward_id, reverse_id>>

\* What the lines before the sample loops set.
startup == <<errors, exit_code, output_dir>>

\* The reference files and what is derived from them for a sample.
references == <<fasta, allele_list, read_counts, rmlst>>

(***************************************************************************)
(* Bounds of the model.                                                    *)
(***************************************************************************)
MaxReads == 4
MaxLabels == 3
MaxEvidence == 3
MaxPaired == 2
MaxUnpaired == 1
MaxCols == 2
NumberSubsamples == 2
MaxContigs == 3
MaxCount == 2
MaxItems == 2

(***************************************************************************)
(* Python values.                                                          *)
(***************************************************************************)
None == -1

EmptyDict == [k \in {} |-> 0]

DictPut(d, k, v) == [x \in (DOMAIN d) \cup {k} |-> IF x = k THEN v ELSE d[x]]

Range(s) == {s[i] : i \in DOMAIN s}

RECURSIVE SeqsUpTo(_, _)
SeqsUpTo(S, n) ==
    IF n = 0 THEN {<<>>}
    ELSE LET shorter == SeqsUpTo(S, n - 1)
         IN  shorter \cup {Append(s, x) : s \in {t \in shorter : Len(t) = n - 1}, x \in S}

(***************************************************************************)
(* The heterozygosity rule: has_two_high_quality_bases, find_if_multibase.  *)
(***************************************************************************)
HighQuality == 35

RECURSIVE ScanScores(_, _, _)
ScanScores(list_of_scores, i, quality_bases_count) ==
    IF i > Len(list_of_scores) THEN FALSE
    ELSE LET c == IF list_of_scores[i] >= HighQuality
                  THEN quality_bases_count + 1 ELSE quality_bases_count
         IN  IF c >= 2 THEN TRUE ELSE ScanScores(list_of_scores, i + 1, c)

has_two_high_quality_bases_one(list_of_scores) ==
    \E i \in DOMAIN list_of_scores : list_of_scores[i] >= HighQuality

has_two_high_quality_bases(list_of_scores) == ScanScores(list_of_scores, 1, 0)

\* The loop over column.pileups: base -> list of qualities, reads with an
\* undefined query_position skipped.
RECURSIVE CollectQualities(_, _, _)
CollectQualities(col, i, base_qualities) ==
    IF i > Len(col) THEN base_qualities
    ELSE LET read == col[i]
         IN  IF read.query_position # None
             THEN CollectQualities(col, i + 1,
                      IF read.base \notin DOMAIN base_qualities
                      THEN DictPut(base_qualities, read.base, <<read.quality>>)
                      ELSE DictPut(base_qualities, read.base,
                                   Append(base_qualities[read.base], read.quality)))
             ELSE CollectQualities(col, i + 1, base_qualities)

\* The same loop: base -> number of reads.
RECURSIVE CollectCounts(_, _, _)
CollectCounts(col, i, counts) ==
    IF i > Len(col) THEN counts
    ELSE LET read == col[i]
         IN  IF read.query_position # None
             THEN CollectCounts(col, i + 1,
                      IF read.base \in DOMAIN counts
                      THEN DictPut(counts, read.base, counts[read.base] + 1)
                      ELSE DictPut(counts, read.base, 1))
             ELSE CollectCounts(col, i + 1, counts)

find_if_multibase_allreads(col) ==
    LET every == [i \in DOMAIN col |-> [col[i] EXCEPT !.query_position = 0]]
        base_qualities == CollectQualities(every, 1, EmptyDict)
        counted == CollectCounts(every, 1, EmptyDict)
        appropriate_ratio == Cardinality(DOMAIN counted) # 1
        after_ratio == IF appropriate_ratio THEN counted ELSE EmptyDict
    IN  IF DOMAIN after_ratio # {}
        THEN IF \A b \in DOMAIN base_qualities :
                    has_two_high_quality_bases(base_qualities[b])
             THEN after_ratio ELSE EmptyDict
        ELSE after_ratio

find_if_multibase_anybase(col) ==
    LET base_qualities == CollectQualities(col, 1, EmptyDict)
        counted == CollectCounts(col, 1, EmptyDict)
        appropriate_ratio == Cardinality(DOMAIN counted) # 1
        after_ratio == IF appropriate_ratio THEN counted ELSE EmptyDict
    IN  IF DOMAIN after_ratio # {}
        THEN IF \E b \in DOMAIN base_qualities :
                    has_two_high_quality_bases(base_qualities[b])
             THEN after_ratio ELSE EmptyDict
        ELSE after_ratio

find_if_multibase(col) ==
    LET base_qualities == CollectQualities(col, 1, EmptyDict)
        counted == CollectCounts(col, 1, EmptyDict)
        appropriate_ratio == Cardinality(DOMAIN counted) # 1
        after_ratio == IF appropriate_ratio THEN counted ELSE EmptyDict
    IN  IF DOMAIN after_ratio # {}
        THEN IF \A b \in DOMAIN base_qualities :
                    has_two_high_quality_bases(base_qualities[b])
             THEN after_ratio ELSE EmptyDict
        ELSE after_ratio

(***************************************************************************)
(* Strings as token sequences.                                             *)
(***************************************************************************)
Colon == ":"

\* str.split(':'): the segments between separators, always at least one.
RECURSIVE SplitFrom(_, _, _, _)
SplitFrom(str, i, current, done) ==
    IF i > Len(str) THEN Append(done, current)
    ELSE IF str[i] = Colon
         THEN SplitFrom(str, i + 1, <<>>, Append(done, current))
         ELSE SplitFrom(str, i + 1, Append(current, str[i]), done)

Split(str) == SplitFrom(str, 1, <<>>, <<>>)

Comma == ","

Underscore == "_"

Newline == "\n"

\* str.split(sep) for any separator token.
RECURSIVE SplitOnFrom(_, _, _, _, _)
SplitOnFrom(str, sep, i, current, done) ==
    IF i > Len(str) THEN Append(done, current)
    ELSE IF str[i] = sep
         THEN SplitOnFrom(str, sep, i + 1, <<>>, Append(done, current))
         ELSE SplitOnFrom(str, sep, i + 1, Append(current, str[i]), done)

SplitOn(str, sep) == SplitOnFrom(str, sep, 1, <<>>, <<>>)

\* str.rstrip(): trailing whitespace is dropped.
RECURSIVE Rstrip(_)
Rstrip(str) ==
    IF str # <<>> /\ str[Len(str)] = Newline
    THEN Rstrip(SubSeq(str, 1, Len(str) - 1))
    ELSE str

\* The slice list[:-1].
ButLast(list) == SubSeq(list, 1, Len(list) - 1)

\* x in list.
In(x, list) == \E k \in 1 .. Len(list) : list[k] = x

(***************************************************************************)
(* The dependency check of the main program.                               *)
(***************************************************************************)
dependencies == <<"jellyfish", "bbmap.sh", "bbduk.sh", "blastn", "mash", "reformat.sh">>

\* shutil.which(dependency) is not None.
dependency_check(dependency, on_path) == dependency \in on_path

\* for dependency in dependencies: every missing one is logged.
RECURSIVE CheckLoop(_, _, _)
CheckLoop(on_path, i, logged) ==
    IF i > Len(dependencies) THEN logged
    ELSE IF dependency_check(dependencies[i], on_path) = FALSE
         THEN CheckLoop(on_path, i + 1, Append(logged, dependencies[i]))
         ELSE CheckLoop(on_path, i + 1, logged)

\* The same loop leaving at the first missing dependency.
RECURSIVE CheckLoopUntilMissing(_, _)
CheckLoopUntilMissing(on_path, i) ==
    IF i > Len(dependencies) THEN <<>>
    ELSE IF dependency_check(dependencies[i], on_path) = FALSE
         THEN <<dependencies[i]>>
         ELSE CheckLoopUntilMissing(on_path, i + 1)

MissingDependencies_first(on_path) == CheckLoopUntilMissing(on_path, 1)

MissingDependencies(on_path) == CheckLoop(on_path, 1, <<>>)

(***************************************************************************)
(* The membership tables and the genus databases built from them.  A line  *)
(* of a table is genus ':' item ',' item ..., an identifier is             *)
(* gene '_' allele; ':' ',' '_' and the line end are tokens of their own.  *)
(***************************************************************************)
\* find_genusspecific_alleles: the genes to exclude for target_genus.
RECURSIVE ReadExclusions(_, _, _, _)
ReadExclusions(lines, target_genus, i, genes_to_exclude) ==
    IF i > Len(lines) THEN genes_to_exclude
    ELSE LET line == Rstrip(lines[i])
         IN  IF SplitOn(line, Colon)[1] = target_genus
             THEN ReadExclusions(lines, target_genus, i + 1,
                                 SplitOn(SplitOn(line, Colon)[2], Comma))
             ELSE ReadExclusions(lines, target_genus, i + 1, genes_to_exclude)

find_genusspecific_alleles(lines, target_genus) ==
    ReadExclusions(lines, target_genus, 1, <<>>)

\* find_genusspecific_allele_list: the alleles listed for target_genus.
RECURSIVE ReadAlleles(_, _, _, _)
ReadAlleles(lines, target_genus, i, alleles) ==
    IF i > Len(lines) THEN alleles
    ELSE LET line == Rstrip(lines[i])
         IN  IF SplitOn(line, Colon)[1] = target_genus
             THEN ReadAlleles(lines, target_genus, i + 1,
                              ButLast(SplitOn(SplitOn(line, Colon)[2], Comma)))
             ELSE ReadAlleles(lines, target_genus, i + 1, alleles)

find_genusspecific_allele_list(lines, target_genus) ==
    ReadAlleles(lines, target_genus, 1, <<>>)

\* The records written to <genus>_db.fasta by the two builders, given the
\* records of rMLST_combined.fasta.
setup_allelespecific_database_all(combined, alleles) == combined

setup_allelespecific_database(combined, alleles) ==
    SelectSeq(combined, LAMBDA item : In(item, alleles))

setup_genusspecific_database_keep(combined, genes_to_exclude) ==
    SelectSeq(combined, LAMBDA item : In(SplitOn(item, Underscore)[1], genes_to_exclude))

setup_genusspecific_database(combined, genes_to_exclude) ==
    SelectSeq(combined, LAMBDA item : ~In(SplitOn(item, Underscore)[1], genes_to_exclude))

(***************************************************************************)
(* The genus screener: find_cross_contamination and its unpaired twin,     *)
(* applied to the genus labels of the rows of the mash screen report.      *)
(***************************************************************************)
RECURSIVE CollectGenera(_, _, _)
CollectGenera(labels, i, genera_present) ==
    IF i > Len(labels) THEN genera_present
    ELSE LET mash_genus == IF labels[i] = "Shigella" THEN "Escherichia" ELSE labels[i]
         IN  CollectGenera(labels, i + 1,
                 IF mash_genus \notin Range(genera_present)
                 THEN Append(genera_present, mash_genus)
                 ELSE genera_present)

RECURSIVE CollectGenera_raw(_, _, _)
CollectGenera_raw(labels, i, genera_present) ==
    IF i > Len(labels) THEN genera_present
    ELSE CollectGenera_raw(labels, i + 1,
             IF labels[i] \notin Range(genera_present)
             THEN Append(genera_present, labels[i])
             ELSE genera_present)

RECURSIVE CollectGenera_nodedup(_, _, _)
CollectGenera_nodedup(labels, i, genera_present) ==
    IF i > Len(labels) THEN genera_present
    ELSE LET mash_genus == IF labels[i] = "Shigella" THEN "Escherichia" ELSE labels[i]
         IN  CollectGenera_nodedup(labels, i + 1, Append(genera_present, mash_genus))

\* tmpstr += mash_genus + ':' for every genus.
RECURSIVE JoinWithColons(_, _, _)
JoinWithColons(genera_present, i, tmpstr) ==
    IF i > Len(genera_present) THEN tmpstr
    ELSE JoinWithColons(genera_present, i + 1, tmpstr \o <<genera_present[i], Colon>>)

EncodeGenera(genera_present) ==
    IF Len(genera_present) = 1 THEN <<genera_present[1]>>
    ELSE IF Len(genera_present) = 0 THEN <<"NA">>
    ELSE LET tmpstr == JoinWithColons(genera_present, 1, <<>>)
         IN  SubSeq(tmpstr, 1, Len(tmpstr) - 1)

find_cross_contamination_nodedup(labels) ==
    EncodeGenera(CollectGenera_nodedup(labels, 1, <<>>))

find_cross_contamination_unpaired_raw(labels) ==
    EncodeGenera(CollectGenera_raw(labels, 1, <<>>))

find_cross_contamination(labels) ==
    EncodeGenera(CollectGenera(labels, 1, <<>>))

find_cross_contamination_unpaired(labels) ==
    LET genera_present == CollectGenera(labels, 1, <<>>)
    IN  IF Len(genera_present) = 1 THEN <<genera_present[1]>>
        ELSE IF Len(genera_present) = 0 THEN <<"NA">>
        ELSE LET tmpstr == JoinWithColons(genera_present, 1, <<>>)
             IN  SubSeq(tmpstr, 1, Len(tmpstr) - 1)

(***************************************************************************)
(* The classifier: statistics.median and write_output.                     *)
(***************************************************************************)
RECURSIVE Insert(_, _)
Insert(sorted, x) ==
    IF sorted = <<>> THEN <<x>>
    ELSE IF x <= Head(sorted) THEN <<x>> \o sorted
    ELSE <<Head(sorted)>> \o Insert(Tail(sorted), x)

RECURSIVE SortedList(_)
SortedList(s) == IF s = <<>> THEN <<>> ELSE Insert(SortedList(Tail(s)), Head(s))

\* A median is an integer or a half: the fraction num/den with den 1 or 2.
Fraction(twice) ==
    IF twice % 2 = 0 THEN [num |-> twice \div 2, den |-> 1]
    ELSE [num |-> twice, den |-> 2]

\* statistics.median: the middle of the sorted data, or the mean of the two
\* middle values when their number is even.
Median(data) ==
    LET sorted == SortedList(data)
        n == Len(sorted)
    IN  IF n % 2 = 1 THEN Fraction(2 * sorted[(n \div 2) + 1])
        ELSE Fraction(sorted[n \div 2] + sorted[(n \div 2) + 1])

SnvThreshold == 2
KmerThreshold == 45000

Exceeds(fraction, k) == fraction.num > k * fraction.den

AtLeast(fraction, k) == fraction.num >= k * fraction.den

\* The list as write_output uses it: an empty list gets a 0 appended.
Coerced(list) == IF Len(list) = 0 THEN Append(list, 0) ELSE list

ReportRow_atleast(sample_name, list, genus_str, kmers) ==
    LET contaminated ==
            \/ AtLeast(Median(Coerced(list)), SnvThreshold)
            \/ Len(Split(genus_str)) > 1
            \/ kmers >= KmerThreshold
    IN  [samplename |-> sample_name, genus |-> genus_str,
         numcontamsnvs |-> Median(Coerced(list)), numuniquekmers |-> kmers,
         contamstatus |-> contaminated]

\* The line write_output appends to the report.
ReportRow(sample_name, list, genus_str, kmers) ==
    LET contaminated ==
            \/ Exceeds(Median(Coerced(list)), SnvThreshold)
            \/ Len(Split(genus_str)) > 1
            \/ kmers > KmerThreshold
    IN  [samplename |-> sample_name, genus |-> genus_str,
         numcontamsnvs |-> Median(Coerced(list)), numuniquekmers |-> kmers,
         contamstatus |-> contaminated]

Header == <<"Sample", "Genus", "NumContamSNVs", "NumUniqueKmers", "ContamStatus">>

(***************************************************************************)
(* Input domains.                                                          *)
(***************************************************************************)
Bases == {"A", "C", "G"}

Qualities == {HighQuality - 1, HighQuality, HighQuality + 1}

\* One read of a pileup column: its offset in the read (None when the
\* aligner gives none), and the base and quality the read has there.
Reads ==
    {[query_position |-> 0, base |-> b, quality |-> q] : b \in Bases, q \in Qualities}
    \cup {[query_position |-> None, base |-> "A", quality |-> HighQuality]}

Columns == SeqsUpTo(Reads, MaxReads)

Labels == {"Escherichia", "Shigella", "Salmonella"}

ScreenOutputs == SeqsUpTo(Labels, MaxLabels)

ErrorGenus == <<"Error processing sample">>

EvidenceValues == 0 .. 3

KmerCounts == {0, KmerThreshold, KmerThreshold + 1}

GenusStrings ==
    {<<"NA">>, <<"Escherichia">>, <<"Escherichia", Colon, "Salmonella">>, ErrorGenus}

PairName(i) == <<"pair", i>>

SingleName(i) == <<"single", i>>

\* Two columns a second mapping can show: one with two well supported
\* bases, one with a single base.
MixedColumn ==
    <<[query_position |-> 0, base |-> "A", quality |-> HighQuality],
      [query_position |-> 0, base |-> "A", quality |-> HighQuality],
      [query_position |-> 0, base |-> "C", quality |-> HighQuality],
      [query_position |-> 0, base |-> "C", quality |-> HighQuality]>>

PlainColumn ==
    <<[query_position |-> 0, base |-> "A", quality |-> HighQuality],
      [query_position |-> 0, base |-> "A", quality |-> HighQuality]>>

\* The pileups a contig of the second mapping can show: up to MaxCols mixed
\* columns followed by a plain one.
ContigColumns ==
    {[i \in 1 .. m + 1 |-> IF i <= m THEN MixedColumn ELSE PlainColumn] : m \in 0 .. MaxCols}

(***************************************************************************)
(* Values of the variables outside the part a specification exercises.     *)
(***************************************************************************)
SampleLocalsReset ==
    /\ screen_output' = <<>>
    /\ genus' = <<>>
    /\ snv_list' = <<>>
    /\ max_kmers' = 0
    /\ sample_database' = ""
    /\ steps' = {}
    /\ failed' = FALSE
    /\ bam' = FALSE
    /\ gene_alleles_to_use' = EmptyDict
    /\ pileup' = EmptyDict
    /\ cycle' = 0
    /\ num_kmers' = 0
    /\ allele_list' = <<>>
    /\ read_counts' = <<>>
    /\ rmlst' = <<>>

SampleLocalsInit ==
    /\ screen_output = <<>>
    /\ genus = <<>>
    /\ snv_list = <<>>
    /\ max_kmers = 0
    /\ sample_database = ""
    /\ steps = {}
    /\ failed = FALSE
    /\ bam = FALSE
    /\ gene_alleles_to_use = EmptyDict
    /\ pileup = EmptyDict
    /\ cycle = 0
    /\ num_kmers = 0
    /\ allele_list = <<>>
    /\ read_counts = <<>>
    /\ rmlst = <<>>

RunIdle ==
    /\ paired_reads = <<>>
    /\ unpaired_reads = <<>>
    /\ idx = 0
    /\ report = <<>>
    /\ tmpdirs = {}
    /\ db_files = {}
    /\ path = {}
    /\ errors = <<>>
    /\ exit_code = None
    /\ output_dir = FALSE

TablesIdle ==
    /\ profiles_file = <<>>
    /\ fasta = EmptyDict

ColumnIdle ==
    /\ column = <<>>
    /\ base_dict = EmptyDict

UtilitiesIdle ==
    /\ stdout = <<>>
    /\ present = FALSE
    /\ input_kmers = <<>>
    /\ output_kmers = <<>>
    /\ cutoff = 0
    /\ fastq_files = {}
    /\ forward_id = ""
    /\ reverse_id = ""

(***************************************************************************)
(* find_if_multibase applied to one pileup column.                         *)
(***************************************************************************)
InitColumn ==
    /\ pc = "column"
    /\ UtilitiesIdle
    /\ RunIdle
    /\ TablesIdle
    /\ SampleLocalsInit
    /\ column \in Columns
    /\ base_dict = EmptyDict

FindIfMultibase ==
    /\ pc = "column"
    /\ base_dict' = find_if_multibase(column)
    /\ pc' = "column_done"
    /\ UNCHANGED <<paired_reads, unpaired_reads, idx, report, tmpdirs, db_files,
                   screen_output, genus, snv_list, max_kmers, sample_database,
                   steps, failed, bam, gene_alleles_to_use, pileup, cycle,
                   num_kmers, column, environment, utilities, startup,
                   references>>

NextColumn == FindIfMultibase

SpecColumn == InitColumn /\ [][NextColumn]_vars

(***************************************************************************)
(* The two screeners applied to one screening report.                      *)
(***************************************************************************)
InitScreen ==
    /\ pc = "screen_report"
    /\ UtilitiesIdle
    /\ RunIdle
    /\ TablesIdle
    /\ ColumnIdle
    /\ screen_output \in ScreenOutputs
    /\ genus = <<>>
    /\ snv_list = <<>>
    /\ max_kmers = 0
    /\ sample_database = ""
    /\ steps = {}
    /\ failed = FALSE
    /\ bam = FALSE
    /\ gene_alleles_to_use = EmptyDict
    /\ pileup = EmptyDict
    /\ cycle = 0
    /\ num_kmers = 0
    /\ allele_list = <<>>
    /\ read_counts = <<>>
    /\ rmlst = <<>>

ScreenPaired ==
    /\ pc = "screen_report"
    /\ genus' = find_cross_contamination(screen_output)
    /\ pc' = "screened_paired"
    /\ UNCHANGED <<paired_reads, unpaired_reads, idx, report, tmpdirs, db_files,
                   screen_output, snv_list, max_kmers, sample_database, steps,
                   failed, bam, gene_alleles_to_use, pileup, cycle, num_kmers,
                   column, base_dict, environment, utilities, startup,
                   references>>

ScreenUnpaired ==
    /\ pc = "screen_report"
    /\ genus' = find_cross_contamination_unpaired(screen_output)
    /\ pc' = "screened_unpaired"
    /\ UNCHANGED <<paired_reads, unpaired_reads, idx, report, tmpdirs, db_files,
                   screen_output, snv_list, max_kmers, sample_database, steps,
                   failed, bam, gene_alleles_to_use, pileup, cycle, num_kmers,
                   column, base_dict, environment, utilities, startup,
                   references>>

NextScreen == ScreenPaired \/ ScreenUnpaired

SpecScreen == InitScreen /\ [][NextScreen]_vars

(***************************************************************************)
(* write_output applied to one evidence list, genus string and k-mer count.*)
(***************************************************************************)
InitClassify ==
    /\ pc = "classify"
    /\ UtilitiesIdle
    /\ paired_reads = <<PairName(1)>>
    /\ unpaired_reads = <<>>
    /\ idx = 1
    /\ report = <<Header>>
    /\ tmpdirs = {}
    /\ db_files = {}
    /\ path = {}
    /\ profiles_file = <<>>
    /\ errors = <<>>
    /\ exit_code = None
    /\ output_dir = TRUE
    /\ fasta = EmptyDict
    /\ ColumnIdle
    /\ screen_output = <<>>
    /\ genus \in GenusStrings
    /\ snv_list \in SeqsUpTo(EvidenceValues, MaxEvidence)
    /\ max_kmers \in KmerCounts
    /\ sample_database = ""
    /\ steps = {}
    /\ failed = FALSE
    /\ bam = FALSE
    /\ gene_alleles_to_use = EmptyDict
    /\ pileup = EmptyDict
    /\ cycle = 0
    /\ num_kmers = 0
    /\ allele_list = <<>>
    /\ read_counts = <<>>
    /\ rmlst = <<>>

\* write_output: the list is coerced in place, one line is appended.
write_output(sample_name, list, genus_str, kmers) ==
    /\ report' = Append(report, ReportRow(sample_name, list, genus_str, kmers))
    /\ snv_list' = Coerced(list)

Classify ==
    /\ pc = "classify"
    /\ write_output(paired_reads[idx], snv_list, genus, max_kmers)
    /\ pc' = "classified"
    /\ UNCHANGED <<paired_reads, unpaired_reads, idx, tmpdirs, db_files,
                   screen_output, genus, max_kmers, sample_database, steps,
                   failed, bam, gene_alleles_to_use, pileup, cycle, num_kmers,
                   column, base_dict, environment, utilities, startup,
                   references>>

NextClassify == Classify

SpecClassify == InitClassify /\ [][NextClassify]_vars

(***************************************************************************)
(* The paired-read path below the screener: best-allele selection and the  *)
(* pileup scan of read_contig.                                             *)
(***************************************************************************)
Combined == <<"rMLST_combined", ".fasta">>

\* '{}_db.fasta'.format(genus), the genus string being one token here.
DbFile(genus_str) == <<genus_str[1], "_db.fasta">>

\* An identifier <gene>_<allele>.
Id(gene, allele) == <<gene, Underscore, allele>>

\* The records of rMLST_combined.fasta in a run.
CombinedRecords ==
    <<Id("BACT000001", "1"), Id("BACT000001", "2"), Id("BACT000002", "1"),
      Id("BACT000003", "1")>>

\* The contigs <gene>_<allele> of a genus database.
DbContigs == <<Id("BACT000001", "1"), Id("BACT000001", "2"), Id("BACT000002", "1")>>

\* The contigs of a genus database built from an earlier table.
EarlierContigs == <<Id("BACT000003", "1")>>

\* ','.join(items).
RECURSIVE JoinWith(_, _)
JoinWith(items, sep) ==
    IF items = <<>> THEN <<>>
    ELSE IF Len(items) = 1 THEN items[1]
    ELSE items[1] \o <<sep>> \o JoinWith(Tail(items), sep)

\* A table line 'genus:item,...,item' and one whose list ends with a comma.
TableLine(genus_str, items) ==
    genus_str \o <<Colon>> \o JoinWith(items, Comma) \o <<Newline>>

TerminatedLine(genus_str, items) ==
    genus_str \o <<Colon>> \o JoinWith(items, Comma) \o <<Comma, Newline>>

\* gene_allele.txt of a run; every list ends with a comma, the form the
\* reader's [:-1] takes whole.
GeneAlleleTxt ==
    <<TerminatedLine(<<"Escherichia">>, DbContigs),
      TerminatedLine(<<"Salmonella">>, <<Id("BACT000003", "1")>>)>>

\* bamfile.count(contig=contig) of the contigs of a database.
ReadCounts(contig_names) == [Range(contig_names) -> 0 .. 1]

\* The loop over contig_names with a later allele winning a tie.
RECURSIVE SelectBestOrEqual(_, _, _, _)
SelectBestOrEqual(contig_names, counts, i, chosen) ==
    IF i > Len(contig_names) THEN chosen
    ELSE LET gene == SplitOn(contig_names[i], Underscore)[1]
             allele == SplitOn(contig_names[i], Underscore)[2]
             read_count == counts[contig_names[i]]
         IN  IF gene \notin DOMAIN chosen
             THEN SelectBestOrEqual(contig_names, counts, i + 1,
                                    DictPut(chosen, gene, <<allele, read_count>>))
             ELSE IF chosen[gene][2] <= read_count
                  THEN SelectBestOrEqual(contig_names, counts, i + 1,
                                         DictPut(chosen, gene, <<allele, read_count>>))
                  ELSE SelectBestOrEqual(contig_names, counts, i + 1, chosen)

\* The loop over contig_names: gene -> [allele, read count].
RECURSIVE SelectBest(_, _, _, _)
SelectBest(contig_names, counts, i, chosen) ==
    IF i > Len(contig_names) THEN chosen
    ELSE LET gene == SplitOn(contig_names[i], Underscore)[1]
             allele == SplitOn(contig_names[i], Underscore)[2]
             read_count == counts[contig_names[i]]
         IN  IF gene \notin DOMAIN chosen
             THEN SelectBest(contig_names, counts, i + 1,
                             DictPut(chosen, gene, <<allele, read_count>>))
             ELSE IF chosen[gene][2] < read_count
                  THEN SelectBest(contig_names, counts, i + 1,
                                  DictPut(chosen, gene, <<allele, read_count>>))
                  ELSE SelectBest(contig_names, counts, i + 1, chosen)

BestAlleles_orequal(contig_names, counts) ==
    SelectBestOrEqual(contig_names, counts, 1, EmptyDict)

\* Lines 527-538.
BestAlleles(contig_names, counts) == SelectBest(contig_names, counts, 1, EmptyDict)

\* contig_name = gene + '_' + allele for every selected gene.
SelectedContigs(chosen) == {g \o <<Underscore>> \o chosen[g][1] : g \in DOMAIN chosen}

RestrictedReference_all(contigs, chosen) == contigs

\* Lines 545-549: the records of the database whose id is a selected contig.
RestrictedReference(contigs, chosen) ==
    SelectSeq(contigs, LAMBDA contig : contig \in SelectedContigs(chosen))

\* read_contig: reference name -> positions of the flagged columns.
RECURSIVE ScanColumns(_, _, _, _)
ScanColumns(contig_name, cols, i, multibase_position_dict) ==
    IF i > Len(cols) THEN multibase_position_dict
    ELSE IF DOMAIN find_if_multibase(cols[i]) # {}
         THEN ScanColumns(contig_name, cols, i + 1,
                  IF contig_name \in DOMAIN multibase_position_dict
                  THEN DictPut(multibase_position_dict, contig_name,
                               Append(multibase_position_dict[contig_name], i - 1))
                  ELSE DictPut(multibase_position_dict, contig_name, <<i - 1>>))
         ELSE ScanColumns(contig_name, cols, i + 1, multibase_position_dict)

read_contig(contig_name, cols) == ScanColumns(contig_name, cols, 1, EmptyDict)

\* multi_positions += len(multibase_position_dict), over the selected genes.
RECURSIVE MultiPositions(_, _)
MultiPositions(contigs, pl) ==
    IF contigs = {} THEN 0
    ELSE LET c == CHOOSE x \in contigs : TRUE
         IN  Cardinality(DOMAIN read_contig(c, pl[c])) + MultiPositions(contigs \ {c}, pl)

(***************************************************************************)
(* Best-allele selection and the restricted reference, applied to one      *)
(* genus database and the read counts of its contigs.                      *)
(***************************************************************************)
IdPool == {Id(g, a) : g \in {"BACT000001", "BACT000002"}, a \in {"1", "2", "3"}}

\* Databases with unique identifiers.
UniqueContigs ==
    {c \in SeqsUpTo(IdPool, MaxContigs) :
        \A i, j \in DOMAIN c : i # j => c[i] # c[j]}

InitSelect ==
    /\ pc = "select"
    /\ UtilitiesIdle
    /\ paired_reads = <<>>
    /\ unpaired_reads = <<>>
    /\ idx = 0
    /\ report = <<>>
    /\ tmpdirs = {}
    /\ path = {}
    /\ errors = <<>>
    /\ exit_code = None
    /\ output_dir = FALSE
    /\ ColumnIdle
    /\ profiles_file = <<>>
    /\ db_files = {DbFile(<<"Escherichia">>)}
    /\ \E contig_names \in UniqueContigs :
          /\ fasta = [f \in db_files |-> contig_names]
          /\ read_counts \in [Range(contig_names) -> 0 .. MaxCount]
    /\ screen_output = <<>>
    /\ genus = <<"Escherichia">>
    /\ snv_list = <<>>
    /\ max_kmers = 0
    /\ sample_database = ""
    /\ steps = {}
    /\ failed = FALSE
    /\ bam = TRUE
    /\ gene_alleles_to_use = EmptyDict
    /\ pileup = EmptyDict
    /\ cycle = 0
    /\ num_kmers = 0
    /\ allele_list = <<>>
    /\ rmlst = <<>>

\* Lines 527-549 on the contigs of <genus>_db.fasta.
SelectAlleles ==
    /\ pc = "select"
    /\ gene_alleles_to_use' = BestAlleles(fasta[DbFile(genus)], read_counts)
    /\ rmlst' = RestrictedReference(fasta[DbFile(genus)], gene_alleles_to_use')
    /\ pc' = "selected"
    /\ UNCHANGED <<paired_reads, unpaired_reads, idx, report, tmpdirs, db_files,
                   screen_output, genus, snv_list, max_kmers, sample_database,
                   steps, failed, bam, pileup, cycle, num_kmers, column,
                   base_dict, environment, utilities, startup, fasta,
                   allele_list, read_counts>>

NextSelect == SelectAlleles

SpecSelect == InitSelect /\ [][NextSelect]_vars

(***************************************************************************)
(* The two table readers and the two database builders, applied to one     *)
(* membership table, one target genus and one combined reference.          *)
(***************************************************************************)
TableIds == {Id("BACT000001", "1"), Id("BACT000001", "2"), Id("BACT000002", "1")}

TableGenes == {<<"BACT000001">>, <<"BACT000002">>}

WhitelistItems == SeqsUpTo(TableIds, MaxItems)

ExclusionItems == SeqsUpTo(TableGenes, MaxItems)

\* The lines a table can hold for Escherichia.
EscherichiaLines ==
    {TableLine(<<"Escherichia">>, items) : items \in WhitelistItems \cup ExclusionItems}
    \cup {TerminatedLine(<<"Escherichia">>, items) : items \in WhitelistItems \cup ExclusionItems}

SalmonellaLine == TableLine(<<"Salmonella">>, << <<"BACT000002">> >>)

BlankLine == <<Newline>>

Tables ==
    {<<>>, <<SalmonellaLine>>}
    \cup {<<l>> : l \in EscherichiaLines}
    \cup {<<l, SalmonellaLine>> : l \in EscherichiaLines}
    \cup {<<SalmonellaLine, BlankLine, l>> : l \in EscherichiaLines}

TargetGenera == {<<"Escherichia">>, <<"Salmonella">>, <<"Listeria">>}

CombinedChoices ==
    {CombinedRecords,
     <<Id("BACT000002", "1"), Id("BACT000001", "2"), Id("BACT000001", "1")>>}

InitTable ==
    /\ pc = "table"
    /\ UtilitiesIdle
    /\ paired_reads = <<>>
    /\ unpaired_reads = <<>>
    /\ idx = 0
    /\ report = <<>>
    /\ tmpdirs = {}
    /\ path = {}
    /\ errors = <<>>
    /\ exit_code = None
    /\ output_dir = FALSE
    /\ ColumnIdle
    /\ profiles_file \in Tables
    /\ db_files = {Combined}
    /\ \E combined \in CombinedChoices : fasta = [f \in db_files |-> combined]
    /\ screen_output = <<>>
    /\ genus \in TargetGenera
    /\ snv_list = <<>>
    /\ max_kmers = 0
    /\ sample_database = ""
    /\ steps = {}
    /\ failed = FALSE
    /\ bam = FALSE
    /\ gene_alleles_to_use = EmptyDict
    /\ pileup = EmptyDict
    /\ cycle = 0
    /\ num_kmers = 0
    /\ allele_list = <<>>
    /\ read_counts = <<>>
    /\ rmlst = <<>>

\* find_genusspecific_allele_list, then setup_allelespecific_database.
BuildAlleleSpecific ==
    /\ pc = "table"
    /\ allele_list' = find_genusspecific_allele_list(profiles_file, genus)
    /\ fasta' = DictPut(fasta, DbFile(genus),
                        setup_allelespecific_database(fasta[Combined], allele_list'))
    /\ db_files' = db_files \cup {DbFile(genus)}
    /\ pc' = "allele_db"
    /\ UNCHANGED <<paired_reads, unpaired_reads, idx, report, tmpdirs,
                   screen_output, genus, snv_list, max_kmers, sample_database,
                   steps, failed, bam, gene_alleles_to_use, pileup, cycle,
                   num_kmers, column, base_dict, environment, utilities,
                   startup, read_counts, rmlst>>

\* find_genusspecific_alleles, then setup_genusspecific_database.
BuildGenusSpecific ==
    /\ pc = "table"
    /\ allele_list' = find_genusspecific_alleles(profiles_file, genus)
    /\ fasta' = DictPut(fasta, DbFile(genus),
                        setup_genusspecific_database(fasta[Combined], allele_list'))
    /\ db_files' = db_files \cup {DbFile(genus)}
    /\ pc' = "genus_db"
    /\ UNCHANGED <<paired_reads, unpaired_reads, idx, report, tmpdirs,
                   screen_output, genus, snv_list, max_kmers, sample_database,
                   steps, failed, bam, gene_alleles_to_use, pileup, cycle,
                   num_kmers, column, base_dict, environment, utilities,
                   startup, read_counts, rmlst>>

NextTable == BuildAlleleSpecific \/ BuildGenusSpecific

SpecTable == InitTable /\ [][NextTable]_vars

(***************************************************************************)
(* find_if_multibase applied to a column and again after a read's quality  *)
(* score has been lowered.                                                 *)
(***************************************************************************)
InitQuality ==
    /\ pc = "quality"
    /\ UtilitiesIdle
    /\ RunIdle
    /\ TablesIdle
    /\ SampleLocalsInit
    /\ column \in Columns
    /\ base_dict = find_if_multibase(column)

LowerQuality ==
    /\ pc \in {"quality", "lowered"}
    /\ \E i \in DOMAIN column, q \in Qualities :
          /\ q < column[i].quality
          /\ column' = [column EXCEPT ![i].quality = q]
    /\ base_dict' = find_if_multibase(column')
    /\ pc' = "lowered"
    /\ UNCHANGED <<paired_reads, unpaired_reads, idx, report, tmpdirs, db_files,
                   screen_output, genus, snv_list, max_kmers, sample_database,
                   steps, failed, bam, gene_alleles_to_use, pileup, cycle,
                   num_kmers, environment, utilities, startup, references>>

NextQuality == LowerQuality

SpecQuality == InitQuality /\ [][NextQuality]_vars

(***************************************************************************)
(* The run: the main program, find_contamination and                       *)
(* find_contamination_unpaired, one sample at a time.                      *)
(***************************************************************************)
SnvCounts == {0, 3}

\* The screening reports a sample of the run can have: no genus, one genus,
\* two genera.
RunScreenOutputs == {<<>>, <<"Escherichia">>, <<"Shigella", "Salmonella">>}

StaleReport == <<Header, ReportRow(PairName(1), <<0>>, <<"NA">>, 0)>>

PairedPcs == {"p_screen", "p_cross", "p_db", "p_extract", "p_trim", "p_map",
              "p_select", "p_remap", "p_pileup", "p_except", "p_end"}

UnpairedPcs == {"u_screen", "u_cross", "u_db", "u_extract", "u_trim",
                "u_subsample", "u_kmers", "u_bbmap", "u_blast", "u_write",
                "u_except", "u_end"}

\* The sample the main loop is at.
CurrentSample ==
    IF pc \in UnpairedPcs THEN unpaired_reads[idx] ELSE paired_reads[idx]

Init ==
    /\ pc = "deps"
    /\ UtilitiesIdle
    /\ paired_reads \in {[i \in 1 .. n |-> PairName(i)] : n \in 0 .. MaxPaired}
    /\ unpaired_reads \in {[i \in 1 .. n |-> SingleName(i)] : n \in 0 .. MaxUnpaired}
    /\ idx = 0
    /\ path \in SUBSET Range(dependencies)
    /\ profiles_file = GeneAlleleTxt
    /\ errors = <<>>
    /\ exit_code = None
    /\ output_dir \in BOOLEAN
    /\ report \in IF output_dir THEN {<<>>, StaleReport} ELSE {<<>>}
    /\ tmpdirs = {}
    /\ db_files \in {{}, {Combined}, {Combined, DbFile(<<"Escherichia">>)}}
    /\ fasta = [f \in db_files |-> IF f = Combined THEN CombinedRecords
                                                    ELSE EarlierContigs]
    /\ SampleLocalsInit
    /\ ColumnIdle

inputs == <<paired_reads, unpaired_reads, column, base_dict, environment,
            utilities>>

\* Lines 924-932: every dependency is looked for; the program quits with
\* code 1 when one is missing.
CheckDependencies ==
    /\ pc = "deps"
    /\ errors' = MissingDependencies(path)
    /\ LET all_dependencies_present == (errors' = <<>>)
       IN  IF ~all_dependencies_present
           THEN /\ exit_code' = 1
                /\ pc' = "quit"
           ELSE /\ UNCHANGED exit_code
                /\ pc' = "deps_ok"
    /\ UNCHANGED <<inputs, output_dir, references, idx, report, tmpdirs,
                   db_files, screen_output, genus, snv_list, max_kmers,
                   sample_database, steps, failed, bam, gene_alleles_to_use,
                   pileup, cycle, num_kmers>>

\* Lines 934-940: the output directory is made, and the database bundle is
\* fetched when a required file is missing.
PrepareOutput ==
    /\ pc = "deps_ok"
    /\ output_dir' = TRUE
    /\ IF Combined \notin db_files
       THEN /\ db_files' = db_files \cup {Combined}
            /\ fasta' = DictPut(fasta, Combined, CombinedRecords)
       ELSE UNCHANGED <<db_files, fasta>>
    /\ pc' = "start"
    /\ UNCHANGED <<inputs, errors, exit_code, allele_list, read_counts, rmlst,
                   idx, report, tmpdirs, screen_output, genus, snv_list,
                   max_kmers, sample_database, steps, failed, bam,
                   gene_alleles_to_use, pileup, cycle, num_kmers>>

OpenReport_append ==
    /\ pc = "start"
    /\ report' = report \o <<Header>>
    /\ idx' = 1
    /\ pc' = "paired_loop"
    /\ UNCHANGED <<inputs, startup, references, tmpdirs, db_files,
                   screen_output, genus, snv_list, max_kmers, sample_database,
                   steps, failed, bam, gene_alleles_to_use, pileup, cycle,
                   num_kmers>>

\* Lines 934-947: the report is opened for writing and gets its header.
OpenReport ==
    /\ pc = "start"
    /\ report' = <<Header>>
    /\ idx' = 1
    /\ pc' = "paired_loop"
    /\ UNCHANGED <<inputs, startup, references, tmpdirs, db_files,
                   screen_output, genus, snv_list, max_kmers, sample_database,
                   steps, failed, bam, gene_alleles_to_use, pileup, cycle,
                   num_kmers>>

\* for pair in paired_reads, and the first lines of find_contamination.
BeginPaired ==
    /\ pc = "paired_loop"
    /\ idx <= Len(paired_reads)
    /\ snv_list' = <<>>
    /\ max_kmers' = 0
    /\ tmpdirs' = tmpdirs \cup {paired_reads[idx]}
    /\ steps' = {"makedirs"}
    /\ pc' = "p_screen"
    /\ UNCHANGED <<inputs, startup, references, idx, report, db_files,
                   screen_output, genus, sample_database, failed, bam,
                   gene_alleles_to_use, pileup, cycle, num_kmers>>

PairedDone ==
    /\ pc = "paired_loop"
    /\ idx > Len(paired_reads)
    /\ idx' = 1
    /\ pc' = "unpaired_loop"
    /\ UNCHANGED <<inputs, startup, references, report, tmpdirs, db_files,
                   screen_output, genus, snv_list, max_kmers, sample_database,
                   steps, failed, bam, gene_alleles_to_use, pileup, cycle,
                   num_kmers>>

\* A call of a confindr_wrappers function that ends in CalledProcessError.
WrapperRaises(step, handler) ==
    /\ failed' = TRUE
    /\ steps' = steps \cup {step}
    /\ pc' = handler

ScreenSamplePaired ==
    /\ pc = "p_screen"
    /\ \/ \E out \in RunScreenOutputs :
            /\ genus' = find_cross_contamination(out)
            /\ steps' = steps \cup {"screen"}
            /\ pc' = IF Len(Split(genus')) > 1 THEN "p_cross" ELSE "p_db"
            /\ UNCHANGED failed
       \/ /\ WrapperRaises("screen", "p_except")
          /\ UNCHANGED genus
    /\ UNCHANGED <<inputs, startup, references, idx, report, tmpdirs, db_files,
                   screen_output, snv_list, max_kmers, sample_database, bam,
                   gene_alleles_to_use, pileup, cycle, num_kmers>>

ShortCircuitPaired_noreturn ==
    /\ pc = "p_cross"
    /\ write_output(paired_reads[idx], <<0>>, genus, max_kmers)
    /\ tmpdirs' = tmpdirs \ {paired_reads[idx]}
    /\ steps' = steps \cup {"write_output", "rmtree"}
    /\ pc' = "p_db"
    /\ UNCHANGED <<inputs, startup, references, idx, db_files, screen_output,
                   genus, max_kmers, sample_database, failed, bam,
                   gene_alleles_to_use, pileup, cycle, num_kmers>>

\* Lines 475-484: cross-contamination, the row is written and the function returns.
ShortCircuitPaired ==
    /\ pc = "p_cross"
    /\ write_output(paired_reads[idx], <<0>>, genus, max_kmers)
    /\ tmpdirs' = tmpdirs \ {paired_reads[idx]}
    /\ steps' = steps \cup {"write_output", "rmtree"}
    /\ pc' = "p_end"
    /\ UNCHANGED <<inputs, startup, references, idx, db_files, screen_output,
                   genus, max_kmers, sample_database, failed, bam,
                   gene_alleles_to_use, pileup, cycle, num_kmers>>

SetupDatabase_always(next) ==
    /\ IF genus # <<"NA">>
       THEN /\ sample_database' = DbFile(genus)
            /\ allele_list' = find_genusspecific_allele_list(profiles_file, genus)
            /\ db_files' = db_files \cup {DbFile(genus)}
            /\ fasta' = DictPut(fasta, DbFile(genus),
                                setup_allelespecific_database(fasta[Combined],
                                                              allele_list'))
            /\ steps' = steps \cup {"database"}
       ELSE /\ sample_database' = Combined
            /\ UNCHANGED <<db_files, fasta, allele_list, steps>>
    /\ pc' = next
    /\ UNCHANGED <<inputs, startup, read_counts, rmlst, idx, report, tmpdirs,
                   screen_output, genus, snv_list, max_kmers, failed, bam,
                   gene_alleles_to_use, pileup, cycle, num_kmers>>

\* Lines 488-495: the genus database is built when its file is absent.
SetupDatabase(next) ==
    /\ IF genus # <<"NA">>
       THEN /\ sample_database' = DbFile(genus)
            /\ IF DbFile(genus) \notin db_files
               THEN /\ allele_list' = find_genusspecific_allele_list(profiles_file, genus)
                    /\ db_files' = db_files \cup {DbFile(genus)}
                    /\ fasta' = DictPut(fasta, DbFile(genus),
                                        setup_allelespecific_database(fasta[Combined],
                                                                      allele_list'))
                    /\ steps' = steps \cup {"database"}
               ELSE UNCHANGED <<db_files, fasta, allele_list, steps>>
       ELSE /\ sample_database' = Combined
            /\ UNCHANGED <<db_files, fasta, allele_list, steps>>
    /\ pc' = next
    /\ UNCHANGED <<inputs, startup, read_counts, rmlst, idx, report, tmpdirs,
                   screen_output, genus, snv_list, max_kmers, failed, bam,
                   gene_alleles_to_use, pileup, cycle, num_kmers>>

SetupDatabasePaired ==
    /\ pc = "p_db"
    /\ SetupDatabase("p_extract")

\* A wrapper call that either returns or raises CalledProcessError.
WrapperCall(step, next, handler) ==
    /\ \/ /\ steps' = steps \cup {step}
          /\ pc' = next
          /\ UNCHANGED failed
       \/ WrapperRaises(step, handler)
    /\ UNCHANGED <<inputs, startup, references, idx, report, tmpdirs, db_files,
                   screen_output, genus, snv_list, max_kmers, sample_database,
                   bam, gene_alleles_to_use, pileup, cycle, num_kmers>>

ExtractPaired ==
    /\ pc = "p_extract"
    /\ WrapperCall("extract", "p_trim", "p_except")

TrimPaired ==
    /\ pc = "p_trim"
    /\ WrapperCall("trim", "p_map", "p_except")

\* os.system of samtools and bbmap.sh against ref: the exit status is not
\* looked at; a failed command may or may not leave a usable sorted BAM, and
\* leaves none when the reference is missing.
SystemMapping(step, ref, next) ==
    /\ \E status \in {0, 1}, usable \in BOOLEAN :
          /\ ref \notin db_files => (status = 1 /\ ~usable)
          /\ status = 0 => usable
          /\ failed' = (failed \/ status # 0)
          /\ bam' = usable
    /\ steps' = steps \cup {step}
    /\ pc' = next
    /\ UNCHANGED <<inputs, startup, references, idx, report, tmpdirs, db_files,
                   screen_output, genus, snv_list, max_kmers, sample_database,
                   gene_alleles_to_use, pileup, cycle, num_kmers>>

\* Lines 512-524: the reference is genus + '_db.fasta'.
MapPaired ==
    /\ pc = "p_map"
    /\ SystemMapping("map", DbFile(genus), "p_select")

\* An exception that is no CalledProcessError leaves the main loop; the
\* interpreter ends with status 1.
Uncaught ==
    /\ pc' = "aborted"
    /\ exit_code' = 1
    /\ UNCHANGED <<inputs, errors, output_dir, references, idx, report, tmpdirs,
                   db_files, screen_output, genus, snv_list, max_kmers,
                   sample_database, steps, failed, bam, gene_alleles_to_use,
                   pileup, cycle, num_kmers>>

\* Lines 527-549: pysam opens sorted.bam (an error when it is missing), the
\* best allele of every gene is chosen and rmlst.fasta is written.
SelectAllelesPaired ==
    /\ pc = "p_select"
    /\ IF ~bam
       THEN Uncaught
       ELSE /\ LET contig_names == fasta[DbFile(genus)]
               IN  \E counts \in ReadCounts(contig_names) :
                      /\ read_counts' = counts
                      /\ gene_alleles_to_use' = BestAlleles(contig_names, counts)
                      /\ rmlst' = RestrictedReference(contig_names, gene_alleles_to_use')
            /\ steps' = steps \cup {"select"}
            /\ pc' = "p_remap"
            /\ UNCHANGED <<inputs, startup, fasta, allele_list, idx, report,
                           tmpdirs, db_files, screen_output, genus, snv_list,
                           max_kmers, sample_database, failed, bam, pileup,
                           cycle, num_kmers>>

\* Lines 551-563: the reference is the sample's rmlst.fasta, written above.
RemapPaired ==
    /\ pc = "p_remap"
    /\ \E status \in {0, 1}, usable \in BOOLEAN :
          /\ status = 0 => usable
          /\ failed' = (failed \/ status # 0)
          /\ bam' = usable
    /\ steps' = steps \cup {"remap"}
    /\ pc' = "p_pileup"
    /\ UNCHANGED <<inputs, startup, references, idx, report, tmpdirs, db_files,
                   screen_output, genus, snv_list, max_kmers, sample_database,
                   gene_alleles_to_use, pileup, cycle, num_kmers>>

\* Lines 565-580: read_contig on every selected contig (pysam opens
\* sorted_2.bam), then the row is written and the directory removed.
PileupPaired ==
    /\ pc = "p_pileup"
    /\ IF ~bam /\ DOMAIN gene_alleles_to_use # {}
       THEN Uncaught
       ELSE /\ \E pl \in [SelectedContigs(gene_alleles_to_use) -> ContigColumns] :
                  /\ pileup' = pl
                  /\ write_output(paired_reads[idx],
                                  <<MultiPositions(SelectedContigs(gene_alleles_to_use), pl)>>,
                                  genus, max_kmers)
            /\ tmpdirs' = tmpdirs \ {paired_reads[idx]}
            /\ steps' = steps \cup {"pileup", "write_output", "rmtree"}
            /\ pc' = "p_end"
            /\ UNCHANGED <<inputs, startup, references, idx, db_files,
                           screen_output, genus, max_kmers, sample_database,
                           failed, bam, gene_alleles_to_use, cycle, num_kmers>>

HandleError_norow(sample_name, next) ==
    /\ snv_list' = <<0>>
    /\ genus' = ErrorGenus
    /\ max_kmers' = 0
    /\ tmpdirs' = tmpdirs \ {sample_name}
    /\ steps' = steps \cup {"rmtree"}
    /\ pc' = next
    /\ UNCHANGED <<inputs, startup, references, idx, report, db_files,
                   screen_output, sample_database, failed, bam,
                   gene_alleles_to_use, pileup, cycle, num_kmers>>

HandleError_stale(sample_name, next) ==
    /\ write_output(sample_name, snv_list, ErrorGenus, max_kmers)
    /\ genus' = ErrorGenus
    /\ max_kmers' = 0
    /\ tmpdirs' = tmpdirs \ {sample_name}
    /\ steps' = steps \cup {"write_output", "rmtree"}
    /\ pc' = next
    /\ UNCHANGED <<inputs, startup, references, idx, db_files, screen_output,
                   sample_database, failed, bam, gene_alleles_to_use, pileup,
                   cycle, num_kmers>>

\* except subprocess.CalledProcessError (lines 954-967 and 974-987).
HandleError(sample_name, next) ==
    /\ write_output(sample_name, <<0>>, ErrorGenus, 0)
    /\ genus' = ErrorGenus
    /\ max_kmers' = 0
    /\ tmpdirs' = tmpdirs \ {sample_name}
    /\ steps' = steps \cup {"write_output", "rmtree"}
    /\ pc' = next
    /\ UNCHANGED <<inputs, startup, references, idx, db_files, screen_output,
                   sample_database, failed, bam, gene_alleles_to_use, pileup,
                   cycle, num_kmers>>

HandleErrorPaired ==
    /\ pc = "p_except"
    /\ HandleError(paired_reads[idx], "p_end")

\* The next iteration of a sample loop.
EndSample(loop) ==
    /\ idx' = idx + 1
    /\ SampleLocalsReset
    /\ pc' = loop
    /\ UNCHANGED <<inputs, startup, fasta, report, tmpdirs, db_files>>

EndPaired ==
    /\ pc = "p_end"
    /\ EndSample("paired_loop")

\* for reads in unpaired_reads, and the first lines of find_contamination_unpaired.
BeginUnpaired ==
    /\ pc = "unpaired_loop"
    /\ idx <= Len(unpaired_reads)
    /\ snv_list' = <<>>
    /\ max_kmers' = 0
    /\ tmpdirs' = tmpdirs \cup {unpaired_reads[idx]}
    /\ steps' = {"makedirs"}
    /\ pc' = "u_screen"
    /\ UNCHANGED <<inputs, startup, references, idx, report, db_files,
                   screen_output, genus, sample_database, failed, bam,
                   gene_alleles_to_use, pileup, cycle, num_kmers>>

\* Line 989: the run is complete.
UnpairedDone ==
    /\ pc = "unpaired_loop"
    /\ idx > Len(unpaired_reads)
    /\ pc' = "done"
    /\ exit_code' = 0
    /\ UNCHANGED <<inputs, errors, output_dir, references, idx, report, tmpdirs,
                   db_files, screen_output, genus, snv_list, max_kmers,
                   sample_database, steps, failed, bam, gene_alleles_to_use,
                   pileup, cycle, num_kmers>>

ScreenSampleUnpaired ==
    /\ pc = "u_screen"
    /\ \/ \E out \in RunScreenOutputs :
            /\ genus' = find_cross_contamination_unpaired(out)
            /\ steps' = steps \cup {"screen"}
            /\ pc' = IF Len(Split(genus')) > 1 THEN "u_cross" ELSE "u_db"
            /\ UNCHANGED failed
       \/ /\ WrapperRaises("screen", "u_except")
          /\ UNCHANGED genus
    /\ UNCHANGED <<inputs, startup, references, idx, report, tmpdirs, db_files,
                   screen_output, snv_list, max_kmers, sample_database, bam,
                   gene_alleles_to_use, pileup, cycle, num_kmers>>

\* Lines 698-707.
ShortCircuitUnpaired ==
    /\ pc = "u_cross"
    /\ write_output(unpaired_reads[idx], <<0>>, genus, max_kmers)
    /\ tmpdirs' = tmpdirs \ {unpaired_reads[idx]}
    /\ steps' = steps \cup {"write_output", "rmtree"}
    /\ pc' = "u_end"
    /\ UNCHANGED <<inputs, startup, references, idx, db_files, screen_output,
                   genus, max_kmers, sample_database, failed, bam,
                   gene_alleles_to_use, pileup, cycle, num_kmers>>

\* Lines 709-720.
SetupDatabaseUnpaired ==
    /\ pc = "u_db"
    /\ SetupDatabase("u_extract")

ExtractUnpaired ==
    /\ pc = "u_extract"
    /\ WrapperCall("extract", "u_trim", "u_except")

\* for i in range(args.number_subsamples): the cycle body, or the code after the loop.
LoopPc(i) == IF i < NumberSubsamples THEN "u_subsample" ELSE "u_write"

\* Lines 731-737.
TrimUnpaired ==
    /\ pc = "u_trim"
    /\ \/ /\ steps' = steps \cup {"trim"}
          /\ pc' = LoopPc(0)
          /\ UNCHANGED failed
       \/ WrapperRaises("trim", "u_except")
    /\ UNCHANGED <<inputs, startup, references, idx, report, tmpdirs, db_files,
                   screen_output, genus, snv_list, max_kmers, sample_database,
                   bam, gene_alleles_to_use, pileup, cycle, num_kmers>>

\* Lines 741-745.
SubsampleUnpaired ==
    /\ pc = "u_subsample"
    /\ WrapperCall("subsample", "u_kmers", "u_except")

KmersUnpaired_last ==
    /\ pc = "u_kmers"
    /\ \/ \E n \in KmerCounts :
            /\ num_kmers' = n
            /\ steps' = steps \cup {"kmers"}
            /\ IF n = 0
               THEN /\ cycle' = cycle + 1
                    /\ pc' = LoopPc(cycle + 1)
                    /\ UNCHANGED max_kmers
               ELSE /\ max_kmers' = n
                    /\ pc' = "u_bbmap"
                    /\ UNCHANGED cycle
            /\ UNCHANGED failed
       \/ /\ WrapperRaises("kmers", "u_except")
          /\ UNCHANGED <<num_kmers, max_kmers, cycle>>
    /\ UNCHANGED <<inputs, startup, references, idx, report, tmpdirs, db_files,
                   screen_output, genus, snv_list, sample_database, bam,
                   gene_alleles_to_use, pileup>>

\* Lines 747-763: jellyfish count and dump, rename_kmers, and the update of
\* max_kmers; a cycle without surviving k-mers goes on to the next cycle.
KmersUnpaired ==
    /\ pc = "u_kmers"
    /\ \/ \E n \in KmerCounts :
            /\ num_kmers' = n
            /\ steps' = steps \cup {"kmers"}
            /\ IF n = 0
               THEN /\ cycle' = cycle + 1
                    /\ pc' = LoopPc(cycle + 1)
                    /\ UNCHANGED max_kmers
               ELSE /\ max_kmers' = IF n > max_kmers THEN n ELSE max_kmers
                    /\ pc' = "u_bbmap"
                    /\ UNCHANGED cycle
            /\ UNCHANGED failed
       \/ /\ WrapperRaises("kmers", "u_except")
          /\ UNCHANGED <<num_kmers, max_kmers, cycle>>
    /\ UNCHANGED <<inputs, startup, references, idx, report, tmpdirs, db_files,
                   screen_output, genus, snv_list, sample_database, bam,
                   gene_alleles_to_use, pileup>>

\* Lines 766-773.
BbmapUnpaired ==
    /\ pc = "u_bbmap"
    /\ WrapperCall("bbmap", "u_blast", "u_except")

\* Lines 776-808: the one-mismatch k-mers are searched in the database
\* (blastn raises a CalledProcessError on a non-zero exit) and counted.
BlastUnpaired ==
    /\ pc = "u_blast"
    /\ \/ \E snv_count \in SnvCounts :
            /\ snv_list' = Append(snv_list, snv_count)
            /\ steps' = steps \cup {"blast"}
            /\ cycle' = cycle + 1
            /\ pc' = LoopPc(cycle + 1)
            /\ UNCHANGED failed
       \/ /\ WrapperRaises("blast", "u_except")
          /\ UNCHANGED <<snv_list, cycle>>
    /\ UNCHANGED <<inputs, startup, references, idx, report, tmpdirs, db_files,
                   screen_output, genus, max_kmers, sample_database, bam,
                   gene_alleles_to_use, pileup, num_kmers>>

\* Lines 810-819.
WriteResultUnpaired ==
    /\ pc = "u_write"
    /\ write_output(unpaired_reads[idx], snv_list, genus, max_kmers)
    /\ tmpdirs' = tmpdirs \ {unpaired_reads[idx]}
    /\ steps' = steps \cup {"write_output", "rmtree"}
    /\ pc' = "u_end"
    /\ UNCHANGED <<inputs, startup, references, idx, db_files, screen_output,
                   genus, max_kmers, sample_database, failed, bam,
                   gene_alleles_to_use, pileup, cycle, num_kmers>>

HandleErrorUnpaired ==
    /\ pc = "u_except"
    /\ HandleError(unpaired_reads[idx], "u_end")

EndUnpaired ==
    /\ pc = "u_end"
    /\ EndSample("unpaired_loop")

Next ==
    \/ CheckDependencies
    \/ PrepareOutput
    \/ OpenReport
    \/ BeginPaired
    \/ PairedDone
    \/ ScreenSamplePaired
    \/ ShortCircuitPaired
    \/ SetupDatabasePaired
    \/ ExtractPaired
    \/ TrimPaired
    \/ MapPaired
    \/ SelectAllelesPaired
    \/ RemapPaired
    \/ PileupPaired
    \/ HandleErrorPaired
    \/ EndPaired
    \/ BeginUnpaired
    \/ UnpairedDone
    \/ ScreenSampleUnpaired
    \/ ShortCircuitUnpaired
    \/ SetupDatabaseUnpaired
    \/ ExtractUnpaired
    \/ TrimUnpaired
    \/ SubsampleUnpaired
    \/ KmersUnpaired
    \/ BbmapUnpaired
    \/ BlastUnpaired
    \/ WriteResultUnpaired
    \/ HandleErrorUnpaired
    \/ EndUnpaired

Spec == Init /\ [][Next]_vars

(***************************************************************************)
(* Properties of the pure parts.                                           *)
(***************************************************************************)
DefinedReads(col) == {i \in DOMAIN col : col[i].query_position # None}

ObservedBases(col) == {col[i].base : i \in DefinedReads(col)}

Support(col, b) ==
    Cardinality({i \in DefinedReads(col) : col[i].base = b /\ col[i].quality >= 35})

\* C1: find_if_multibase returns a non-empty result for a column exactly
\* when at least 2 distinct bases are observed among the reads with a
\* defined position and every observed base has at least 2 reads of quality
\* >= 35; so a column with one distinct base is never flagged and a column
\* with two bases of 2 such reads each always is.
C1_FlaggedIffTwoSupportedBases ==
    pc = "column_done" =>
        ((DOMAIN base_dict # {}) <=>
            /\ Cardinality(ObservedBases(column)) >= 2
            /\ \A b \in ObservedBases(column) : Support(column, b) >= 2)

C1_Witness ==
    /\ pc = "column_done"
    /\ DOMAIN base_dict = {"A", "C"}
    /\ Support(column, "A") = 2
    /\ Support(column, "C") = 2

\* The k-th smallest entry of a list, by counting.
C3_Kth(list, k) ==
    CHOOSE x \in Range(list) :
        /\ Cardinality({i \in DOMAIN list : list[i] < x}) < k
        /\ k <= Cardinality({i \in DOMAIN list : list[i] <= x})

C3_TwiceMedian(list) ==
    LET n == Len(list)
    IN  IF n % 2 = 1 THEN 2 * C3_Kth(list, (n + 1) \div 2)
        ELSE C3_Kth(list, n \div 2) + C3_Kth(list, (n \div 2) + 1)

\* C3: write_output records the sample as contaminated exactly when the
\* median of the evidence list (an empty list counting as [0]) is > 2, or
\* the genus string contains ':', or the max-k-mer count is > 45000; median
\* 2 and 45000 k-mers alone give not contaminated; the recorded
\* NumContamSNVs is that median.
C3_VerdictIffThresholds ==
    [][(pc = "classify" /\ pc' = "classified") =>
        LET row == report'[Len(report')]
            evidence == IF snv_list = <<>> THEN <<0>> ELSE snv_list
            twice == C3_TwiceMedian(evidence)
        IN  /\ Len(report') = Len(report) + 1
            /\ row.contamstatus <=>
                   \/ twice > 2 * 2
                   \/ \E i \in DOMAIN genus : genus[i] = ":"
                   \/ max_kmers > 45000
            /\ 2 * row.numcontamsnvs.num = twice * row.numcontamsnvs.den
            /\ row.genus = genus
            /\ row.numuniquekmers = max_kmers]_vars

C3_Witness ==
    /\ pc = "classified"
    /\ C3_TwiceMedian(snv_list) = 4
    /\ Len(snv_list) = 3
    /\ max_kmers = 45000
    /\ genus = <<"Escherichia">>
    /\ ~report[Len(report)].contamstatus

C4_Canonical(label) == IF label = "Shigella" THEN "Escherichia" ELSE label

C4_Genera == {C4_Canonical(screen_output[i]) : i \in DOMAIN screen_output}

C4_FirstSeen(g) ==
    CHOOSE i \in DOMAIN screen_output :
        /\ C4_Canonical(screen_output[i]) = g
        /\ \A j \in 1 .. (i - 1) : C4_Canonical(screen_output[j]) # g

HasColon(str) == \E i \in DOMAIN str : str[i] = ":"

LastRow == report[Len(report)]

RowsOf(sample_name) == {i \in 2 .. Len(report) : report[i].samplename = sample_name}

Whole(n) == [num |-> n, den |-> 1]

ErrorRow(sample_name) ==
    [samplename |-> sample_name, genus |-> <<"Error processing sample">>,
     numcontamsnvs |-> Whole(0), numuniquekmers |-> 0, contamstatus |-> FALSE]

AllSamples == paired_reads \o unpaired_reads

InSample == pc \in PairedPcs \cup UnpairedPcs

\* The flagged positions of the second mapping, as (contig, column) pairs.
C2_FlaggedPositions ==
    UNION {{<<c, i>> : i \in {j \in DOMAIN pileup[c] :
                                 DOMAIN find_if_multibase(pileup[c][j]) # {}}} :
           c \in DOMAIN pileup}

\* C2: in the paired path the evidence count written for a sample is the
\* number of flagged positions summed over all selected contigs, a contig
\* with k flagged positions contributing k.
C2_EvidenceCountsEveryPosition ==
    (pc = "p_end" /\ "pileup" \in steps) =>
        LastRow.numcontamsnvs = Whole(Cardinality(C2_FlaggedPositions))

\* C6: when the screener result contains ':' the sample is short-circuited:
\* one row with evidence [0], max-k-mer 0, the joined genus and verdict
\* contaminated, the temporary directory removed, and no later step run.
C6_CrossContaminationShortCircuit ==
    (InSample /\ HasColon(genus)) =>
        /\ steps \subseteq {"makedirs", "screen", "write_output", "rmtree"}
        /\ pc \in {"p_cross", "u_cross", "p_end", "u_end"}
        /\ pc \in {"p_end", "u_end"} =>
              /\ Cardinality(RowsOf(CurrentSample)) = 1
              /\ LastRow = [samplename |-> CurrentSample, genus |-> genus,
                            numcontamsnvs |-> Whole(0), numuniquekmers |-> 0,
                            contamstatus |-> TRUE]
              /\ snv_list = <<0>>
              /\ CurrentSample \notin tmpdirs

C6_Witness ==
    /\ pc = "u_end"
    /\ HasColon(genus)
    /\ \E i \in 2 .. (Len(report) - 1) : HasColon(report[i].genus)

\* C7: when an external tool exits non-zero while a sample is processed, the
\* failure is caught at that sample's boundary: the sample gets the row
\* 'Error processing sample' with evidence 0 and k-mer count 0, its
\* temporary directory is removed and the loop goes on; the batch is never
\* aborted.
C7_FailureCaughtAtSampleBoundary ==
    (failed /\ pc \in {"p_end", "u_end", "aborted"}) =>
        /\ pc # "aborted"
        /\ LastRow = ErrorRow(CurrentSample)
        /\ CurrentSample \notin tmpdirs

\* C8: when a run completes, the report has exactly one row for every
\* discovered sample, however the sample ended.
C8_OneRowPerSample ==
    pc = "done" =>
        /\ Len(report) = 1 + Len(paired_reads) + Len(unpaired_reads)
        /\ \A s \in Range(AllSamples) : Cardinality(RowsOf(s)) = 1

C8_Witness ==
    /\ pc = "done"
    /\ Len(paired_reads) = 2
    /\ Len(unpaired_reads) = 1
    /\ \E i, j, k \in 2 .. Len(report) :
          /\ report[i].genus = <<"Error processing sample">>
          /\ HasColon(report[j].genus)
          /\ report[k].genus = <<"Escherichia">>

\* The rows the report holds when every finished sample has one.
C9_RowsDue ==
    CASE pc \in {"paired_loop", "aborted"} -> idx - 1
      [] pc \in PairedPcs -> (idx - 1) + (IF pc = "p_end" THEN 1 ELSE 0)
      [] pc = "unpaired_loop" -> Len(paired_reads) + (idx - 1)
      [] pc \in UnpairedPcs ->
            Len(paired_reads) + (idx - 1) + (IF pc = "u_end" THEN 1 ELSE 0)
      [] pc = "done" -> Len(paired_reads) + Len(unpaired_reads)

C9_HeaderThenRowsInOrder ==
    pc \notin {"deps", "deps_ok", "quit", "start"} =>
        /\ Len(report) = 1 + C9_RowsDue
        /\ report[1] = <<"Sample", "Genus", "NumContamSNVs", "NumUniqueKmers", "ContamStatus">>
        /\ \A i \in 2 .. Len(report) : report[i].samplename = AllSamples[i - 1]

C9_AppendOnly ==
    pc # "start" =>
        \/ report' = report
        \/ /\ Len(report') = Len(report) + 1
           /\ SubSeq(report', 1, Len(report)) = report

\* C9: the report starts with the header line, written once over whatever
\* the file held, followed by one appended row per sample in processing
\* order, paired samples first, then unpaired ones; a written row is never
\* changed or removed.
C9_ReportOrder == [](C9_HeaderThenRowsInOrder) /\ [][C9_AppendOnly]_vars

C9_Witness ==
    /\ pc = "done"
    /\ Len(report) = 4
    /\ report[2].samplename = PairName(1)
    /\ report[3].samplename = PairName(2)
    /\ report[4].samplename = SingleName(1)

\* C10: a sample's temporary directory exists while the sample is processed
\* and no longer exists once its processing has ended, whether it ended
\* normally, by the cross-contamination short-circuit or by an error.
C10_TmpDirRemovedAtEnd ==
    /\ (InSample /\ pc \notin {"p_end", "u_end"}) => CurrentSample \in tmpdirs
    /\ pc \in {"p_end", "u_end", "aborted"} => CurrentSample \notin tmpdirs

(***************************************************************************)
(* Properties of the start-up, the databases and the selection.            *)
(***************************************************************************)
C11_Missing == Range(dependencies) \ path

C11_QuitState ==
    pc = "quit" =>
        /\ exit_code = 1
        /\ Range(errors) = C11_Missing
        /\ Len(errors) = Cardinality(C11_Missing)
        /\ idx = 0
        /\ tmpdirs = {}
        /\ steps = {}

C11_NothingCreated ==
    (pc' = "quit" \/ pc = "quit") =>
        UNCHANGED <<output_dir, report, db_files, fasta, tmpdirs, idx, steps>>

\* C11: when a required tool is missing the run ends with exit code 1 before
\* any sample is touched: every missing tool of the list has been reported,
\* no output directory, report, database or sample directory has been made,
\* and the run goes no further than the dependency check.
C11_MissingToolAborts ==
    /\ [](C11_QuitState)
    /\ [](C11_Missing # {} => pc \in {"deps", "quit"})
    /\ [][C11_NothingCreated]_vars

C11_Witness ==
    /\ pc = "quit"
    /\ errors = <<"bbmap.sh", "mash">>
    /\ output_dir = FALSE
    /\ report = <<>>
    /\ db_files = {}
    /\ Len(paired_reads) = MaxPaired

C12_Contigs == fasta[DbFile(genus)]

C12_GeneOf(contig) == <<contig[1]>>

C12_AlleleOf(contig) == <<contig[3]>>

C12_Genes == {C12_GeneOf(C12_Contigs[i]) : i \in DOMAIN C12_Contigs}

\* The positions in the database of the alleles of gene g.
C12_Alleles(g) == {i \in DOMAIN C12_Contigs : C12_GeneOf(C12_Contigs[i]) = g}

\* C12: for every gene of the database the selected allele has the highest
\* read count of the gene's alleles, and every allele before it in the
\* order of the FASTA has a strictly lower count (the first of the alleles
\* tied for the maximum is the one selected).
C12_BestAlleleFirstOnTies ==
    pc = "selected" =>
        /\ DOMAIN gene_alleles_to_use = C12_Genes
        /\ \A g \in C12_Genes :
              \E i \in C12_Alleles(g) :
                 /\ gene_alleles_to_use[g] =
                        <<C12_AlleleOf(C12_Contigs[i]), read_counts[C12_Contigs[i]]>>
                 /\ \A j \in C12_Alleles(g) :
                       read_counts[C12_Contigs[j]] <= read_counts[C12_Contigs[i]]
                 /\ \A j \in C12_Alleles(g) :
                       j < i => read_counts[C12_Contigs[j]] < read_counts[C12_Contigs[i]]

C12_Witness ==
    /\ pc = "selected"
    /\ C12_Contigs = <<Id("BACT000001", "1"), Id("BACT000001", "2"), Id("BACT000001", "3")>>
    /\ read_counts[Id("BACT000001", "1")] = 1
    /\ read_counts[Id("BACT000001", "2")] = 2
    /\ read_counts[Id("BACT000001", "3")] = 2
    /\ gene_alleles_to_use[<<"BACT000001">>] = << <<"2">>, 2 >>

\* C13: the sample's rmlst.fasta holds one record for every gene of the
\* genus database and no other record, and the record of a gene is the
\* gene's selected allele, for databases with unique <gene>_<allele> ids.
C13_OneBestAllelePerGene ==
    pc = "selected" =>
        /\ Range(rmlst) =
              {g \o <<"_">> \o gene_alleles_to_use[g][1] : g \in DOMAIN gene_alleles_to_use}
        /\ Len(rmlst) = Cardinality(C12_Genes)
        /\ \A g \in C12_Genes :
              Cardinality({k \in DOMAIN rmlst : C12_GeneOf(rmlst[k]) = g}) = 1

C13_Witness ==
    /\ pc = "selected"
    /\ C12_Contigs = <<Id("BACT000001", "1"), Id("BACT000002", "3"), Id("BACT000001", "2")>>
    /\ read_counts[Id("BACT000001", "1")] = 0
    /\ read_counts[Id("BACT000001", "2")] = 1
    /\ rmlst = <<Id("BACT000002", "3"), Id("BACT000001", "2")>>


\* The lines of the table that are for the target genus.
TargetLines == {k \in DOMAIN profiles_file : profiles_file[k][1] = genus[1]}

\* The table has the line 'genus:item,...,item' and no other line for genus.
HasOnlyLine(items) ==
    /\ Cardinality(TargetLines) = 1
    /\ \A k \in TargetLines : profiles_file[k] = TableLine(genus, items)

\* C14: after the whitelist reader and builder have run on a table whose
\* line for the genus is 'genus:id1,...,idn', the identifiers of the built
\* database are exactly id1..idn.
C14_WhitelistRoundTrip ==
    pc = "allele_db" =>
        \A ids \in WhitelistItems :
            HasOnlyLine(ids) => Range(fasta[DbFile(genus)]) = Range(ids)

\* C15: after the exclusion reader and builder have run on a table whose
\* line for the genus is 'genus:g1,...,gn', the built database holds, in the
\* order of the combined reference, exactly the records whose gene token is
\* none of g1..gn.
C15_ExclusionRoundTrip ==
    pc = "genus_db" =>
        \A genes \in ExclusionItems :
            HasOnlyLine(genes) =>
                fasta[DbFile(genus)] =
                    SelectSeq(fasta[Combined], LAMBDA id : <<id[1]>> \notin Range(genes))

C15_Witness ==
    /\ pc = "genus_db"
    /\ HasOnlyLine(<< <<"BACT000001">> >>)
    /\ Len(profiles_file) = 3
    /\ fasta[Combined] = CombinedRecords
    /\ fasta[DbFile(genus)] = <<Id("BACT000002", "1"), Id("BACT000003", "1")>>

\* C16: when the table has no line for the genus both readers return the
\* empty list; the whitelist builder then writes an empty database and the
\* exclusion builder a copy of every record of the combined reference.
C16_AbsentGenus ==
    (pc \in {"allele_db", "genus_db"} /\ TargetLines = {}) =>
        /\ allele_list = <<>>
        /\ pc = "allele_db" => fasta[DbFile(genus)] = <<>>
        /\ pc = "genus_db" => fasta[DbFile(genus)] = fasta[Combined]

C16_Witness ==
    /\ pc = "allele_db"
    /\ genus = <<"Listeria">>
    /\ Len(profiles_file) = 2
    /\ DbFile(genus) \in DOMAIN fasta
    /\ fasta[DbFile(genus)] = <<>>


C17_ExistingKept ==
    \A f \in db_files : f \in db_files' /\ fasta'[f] = fasta[f]

C17_BuiltOnlyWhenAbsent ==
    (db_files' # db_files \/ fasta' # fasta) =>
        \/ /\ pc = "deps_ok"
           /\ Combined \notin db_files
           /\ db_files' = db_files \cup {Combined}
        \/ /\ pc \in {"p_db", "u_db"}
           /\ DbFile(genus) \notin db_files
           /\ db_files' = db_files \cup {DbFile(genus)}

C17_BuiltWhenAbsent ==
    (pc \in {"p_db", "u_db"} /\ genus # <<"NA">> /\ pc' # pc) =>
        /\ DbFile(genus) \in db_files'
        /\ ("database" \in steps') <=> (DbFile(genus) \notin db_files)

\* C17: in both sample paths a step writes <genus>_db.fasta only when the
\* file is absent at that moment, and writes it then; a file that exists is
\* never written again or removed, whatever the table says now, so a run
\* builds the database of a genus at most once.
C17_DatabaseBuiltOnlyWhenAbsent ==
    [][C17_ExistingKept /\ C17_BuiltOnlyWhenAbsent /\ C17_BuiltWhenAbsent]_vars

C17_Witness ==
    /\ pc = "u_extract"
    /\ genus = <<"Escherichia">>
    /\ "database" \notin steps
    /\ fasta[DbFile(genus)] = EarlierContigs
    /\ fasta[DbFile(genus)] #
          setup_allelespecific_database(fasta[Combined],
              find_genusspecific_allele_list(profiles_file, genus))
    /\ Len(report) > 2


C18_Unsupported ==
    \E b \in ObservedBases(column) : Support(column, b) < 2

C18_NeverFlaggedByLowering ==
    (DOMAIN base_dict' # {}) => (DOMAIN base_dict # {})

\* C18: lowering the quality score of a read never turns an unflagged
\* column into a flagged one, and a column in which some observed base has
\* fewer than 2 reads of quality >= 35 is not flagged.
C18_MonotonicInQuality ==
    /\ []((pc \in {"quality", "lowered"} /\ C18_Unsupported) => DOMAIN base_dict = {})
    /\ [][C18_NeverFlaggedByLowering]_vars

C18_Witness ==
    /\ pc = "lowered"
    /\ Len(column) = 4
    /\ ObservedBases(column) = {"A", "C"}
    /\ Support(column, "A") = 1
    /\ Support(column, "C") = 2
    /\ \E i \in DOMAIN column : column[i].base = "A" /\ column[i].quality = HighQuality - 1
    /\ DOMAIN base_dict = {}


(***************************************************************************)
(* Properties of the subsampling cycles of the unpaired path.              *)
(***************************************************************************)
CyclePcs == {"u_subsample", "u_kmers", "u_bbmap", "u_blast", "u_write"}

\* C19: in the unpaired path the evidence list has one entry per cycle run
\* so far, and NumberSubsamples entries when the row is written.
C19_OneEvidencePerCycle ==
    pc \in CyclePcs =>
        /\ Len(snv_list) = cycle
        /\ pc = "u_write" => Len(snv_list) = NumberSubsamples

C20_Max(a, b) == IF a > b THEN a ELSE b

\* What one step does to max_kmers in the unpaired path: 0 when the sample
\* begins, the larger of the old value and the cycle's k-mer count when a
\* cycle has counted its k-mers, unchanged by any other step, and the
\* NumUniqueKmers of the row find_contamination_unpaired writes.
C20_Step ==
    /\ (pc = "unpaired_loop" /\ pc' = "u_screen") => max_kmers' = 0
    /\ (pc = "u_kmers" /\ pc' # "u_except") =>
           max_kmers' = C20_Max(max_kmers, num_kmers')
    /\ (pc \in UnpairedPcs \ {"u_kmers", "u_except", "u_end"}) =>
           max_kmers' = max_kmers
    /\ (pc \in CyclePcs /\ pc' \in CyclePcs) => max_kmers' >= max_kmers
    /\ (pc \in {"u_write", "u_cross"} /\ pc' = "u_end") =>
           /\ Len(report') = Len(report) + 1
           /\ report'[Len(report')].numuniquekmers = max_kmers

\* C20: the k-mer value the unpaired path hands to the classifier is the
\* maximum of the k-mer counts of the cycles run for the sample, 0 when no
\* cycle ran or none kept a k-mer, and it never decreases between cycles.
C20_MaxKmersIsRunningMaximum == [][C20_Step]_vars

C20_Witness ==
    /\ pc = "u_end"
    /\ cycle = NumberSubsamples
    /\ num_kmers = KmerThreshold
    /\ max_kmers = KmerThreshold + 1
    /\ LastRow.numuniquekmers = KmerThreshold + 1
    /\ LastRow.samplename = unpaired_reads[idx]


(***************************************************************************)
(* present_in_db applied to the output of one search.                      *)
(***************************************************************************)
MaxRecords == 2
MaxAlignments == 2
MaxHsps == 2

\* Default of --kmer-size.
KmerSize == 31

\* The loops over record.alignments and alignment.hsps: <<>> when the loop
\* ends without returning, <<b>> when it returned b.
ScanHsps(hsps, kmer_size) ==
    IF hsps = <<>> THEN <<>>
    ELSE IF hsps[1].align_length = kmer_size THEN <<TRUE>> ELSE <<FALSE>>

RECURSIVE ScanAlignments(_, _, _)
ScanAlignments(alignments, a, kmer_size) ==
    IF a > Len(alignments) THEN <<>>
    ELSE LET returned == ScanHsps(alignments[a].hsps, kmer_size)
         IN  IF returned # <<>> THEN returned
             ELSE ScanAlignments(alignments, a + 1, kmer_size)

RECURSIVE ScanRecords(_, _, _)
ScanRecords(records, r, kmer_size) ==
    IF r > Len(records) THEN <<>>
    ELSE LET returned == ScanAlignments(records[r].alignments, 1, kmer_size)
         IN  IF returned # <<>> THEN returned
             ELSE ScanRecords(records, r + 1, kmer_size)

present_in_db(out, kmer_size) ==
    IF ~out.empty
    THEN LET returned == ScanRecords(out.records, 1, kmer_size)
         IN  IF returned # <<>> THEN returned[1] ELSE FALSE
    ELSE FALSE

\* Search outputs: nothing at all, or up to MaxRecords records of up to
\* MaxAlignments alignments each, with up to MaxHsps HSPs in all, each
\* full-length or one base short.
AlignLengths == {KmerSize - 1, KmerSize}

Hsps == {[align_length |-> n] : n \in AlignLengths}

RECURSIVE HspCount(_)
HspCount(alignments) ==
    IF alignments = <<>> THEN 0
    ELSE Len(alignments[1].hsps) + HspCount(Tail(alignments))

RECURSIVE AlignmentLists(_, _)
AlignmentLists(a, h) ==
    IF a = 0 THEN {<<>>}
    ELSE {<<>>} \cup
         UNION {{<<[hsps |-> hs]>> \o rest :
                    rest \in AlignmentLists(a - 1, h - Len(hs))} :
                hs \in SeqsUpTo(Hsps, h)}

RECURSIVE RecordLists(_, _)
RecordLists(r, h) ==
    IF r = 0 THEN {<<>>}
    ELSE {<<>>} \cup
         UNION {{<<[alignments |-> al]>> \o rest :
                    rest \in RecordLists(r - 1, h - HspCount(al))} :
                al \in AlignmentLists(MaxAlignments, h)}

SearchOutputs ==
    {[empty |-> TRUE, records |-> <<>>]} \cup
    {[empty |-> FALSE, records |-> rs] : rs \in RecordLists(MaxRecords, MaxHsps)}

InitBlast ==
    /\ pc = "blast"
    /\ RunIdle
    /\ TablesIdle
    /\ SampleLocalsInit
    /\ ColumnIdle
    /\ stdout \in SearchOutputs
    /\ present = FALSE
    /\ input_kmers = <<>>
    /\ output_kmers = <<>>
    /\ cutoff = 0
    /\ fastq_files = {}
    /\ forward_id = ""
    /\ reverse_id = ""

PresentInDb ==
    /\ pc = "blast"
    /\ present' = present_in_db(stdout, KmerSize)
    /\ pc' = "blast_done"
    /\ UNCHANGED <<paired_reads, unpaired_reads, idx, report, tmpdirs, db_files,
                   screen_output, genus, snv_list, max_kmers, sample_database,
                   steps, failed, bam, gene_alleles_to_use, pileup, cycle,
                   num_kmers, column, base_dict, environment, startup,
                   references, stdout, input_kmers, output_kmers, cutoff,
                   fastq_files, forward_id, reverse_id>>

NextBlast == PresentInDb

SpecBlast == InitBlast /\ [][NextBlast]_vars


\* C21: present_in_db returns True exactly when the search output holds a
\* full-length result, that is some HSP of some alignment of some record
\* whose alignment length equals the k-mer size, and False otherwise, also
\* for an output without records and for no output.
C21_FullLength ==
    /\ ~stdout.empty
    /\ \E r \in DOMAIN stdout.records :
          \E a \in DOMAIN stdout.records[r].alignments :
             \E h \in DOMAIN stdout.records[r].alignments[a].hsps :
                stdout.records[r].alignments[a].hsps[h].align_length = KmerSize

C21_TrueIffAnyFullLengthHsp ==
    pc = "blast_done" => (present <=> C21_FullLength)


(***************************************************************************)
(* find_if_multibase applied to a column and again after reads without an  *)
(* alignment offset have been added to it or removed from it.              *)
(***************************************************************************)
UndefinedRead == [query_position |-> None, base |-> "A", quality |-> HighQuality]

InitArtifact ==
    /\ pc = "artifact"
    /\ UtilitiesIdle
    /\ RunIdle
    /\ TablesIdle
    /\ SampleLocalsInit
    /\ column \in Columns
    /\ base_dict = find_if_multibase(column)

\* The pileup gains a read with query_position None, at any place.
AddUndefinedRead ==
    /\ pc \in {"artifact", "changed"}
    /\ Len(column) <= MaxReads
    /\ \E i \in 0 .. Len(column) :
          column' = SubSeq(column, 1, i) \o <<UndefinedRead>>
                    \o SubSeq(column, i + 1, Len(column))
    /\ base_dict' = find_if_multibase(column')
    /\ pc' = "changed"
    /\ UNCHANGED <<paired_reads, unpaired_reads, idx, report, tmpdirs, db_files,
                   screen_output, genus, snv_list, max_kmers, sample_database,
                   steps, failed, bam, gene_alleles_to_use, pileup, cycle,
                   num_kmers, environment, utilities, startup, references>>

\* The pileup loses a read with query_position None.
RemoveUndefinedRead ==
    /\ pc \in {"artifact", "changed"}
    /\ \E i \in DOMAIN column :
          /\ column[i].query_position = None
          /\ column' = SubSeq(column, 1, i - 1) \o SubSeq(column, i + 1, Len(column))
    /\ base_dict' = find_if_multibase(column')
    /\ pc' = "changed"
    /\ UNCHANGED <<paired_reads, unpaired_reads, idx, report, tmpdirs, db_files,
                   screen_output, genus, snv_list, max_kmers, sample_database,
                   steps, failed, bam, gene_alleles_to_use, pileup, cycle,
                   num_kmers, environment, utilities, startup, references>>

NextArtifact == AddUndefinedRead \/ RemoveUndefinedRead

SpecArtifact == InitArtifact /\ [][NextArtifact]_vars

C22_SameDecision == base_dict' = base_dict

C22_OnlyUndefined ==
    column # <<>> /\ DefinedReads(column) = {}

\* C22: find_if_multibase ignores the reads whose offset at the column is
\* undefined: adding or removing such reads, one after another and in any
\* place, leaves the result for the column as it was, and a column of such
\* reads only is not flagged.
C22_UndefinedReadsIgnored ==
    /\ [][C22_SameDecision]_vars
    /\ [](C22_OnlyUndefined => DOMAIN base_dict = {})

\* A flagged column that has gained an undefined read, and one made of
\* undefined reads only.
C22_Witness ==
    /\ pc = "changed"
    /\ Len(column) = MaxReads + 1
    /\ DOMAIN base_dict = {"A", "C"}
    /\ column[3] = UndefinedRead


(***************************************************************************)
(* rename_kmers applied to one k-mer count file.                           *)
(***************************************************************************)
MaxKmers == 3

\* Default of --kmer_cutoff.
KmerCutoff == 3

Greater == ">"

Digits == <<"0", "1", "2", "3", "4", "5", "6", "7", "8", "9">>

\* str(n) for n >= 0, one token per decimal digit.
RECURSIVE Str(_)
Str(n) ==
    IF n < 10 THEN <<Digits[n + 1]>>
    ELSE Str(n \div 10) \o <<Digits[(n % 10) + 1]>>

\* int(str): surrounding whitespace is dropped, the digits are read in base
\* ten.
DigitValue(token) == (CHOOSE k \in DOMAIN Digits : Digits[k] = token) - 1

RECURSIVE IntFrom(_, _, _)
IntFrom(str, i, value) ==
    IF i > Len(str) THEN value
    ELSE IntFrom(str, i + 1, 10 * value + DigitValue(str[i]))

int(str) == IntFrom(Rstrip(str), 1, 0)

\* str.replace(old, '') for a one-token old.
Remove(str, old) == SelectSeq(str, LAMBDA token : token # old)

\* ''.join(list).
RECURSIVE Join(_)
Join(list) == IF list = <<>> THEN <<>> ELSE list[1] \o Join(Tail(list))

\* f.readlines(): the lines of a text, each with its line end.
RECURSIVE ReadlinesFrom(_, _, _, _)
ReadlinesFrom(text, i, current, done) ==
    IF i > Len(text)
    THEN IF current = <<>> THEN done ELSE Append(done, current)
    ELSE IF text[i] = Newline
         THEN ReadlinesFrom(text, i + 1, <<>>, Append(done, Append(current, Newline)))
         ELSE ReadlinesFrom(text, i + 1, Append(current, text[i]), done)

Readlines(text) == ReadlinesFrom(text, 1, <<>>, <<>>)

\* The loop over the lines of the input file.
RECURSIVE RenameLoop(_, _, _, _, _)
RenameLoop(fastas, i, least, num_mers, sequences) ==
    IF i > Len(fastas) THEN [num_mers |-> num_mers, sequences |-> sequences]
    ELSE IF In(Greater, fastas[i]) /\ int(Remove(fastas[i], Greater)) >= least
         THEN RenameLoop(fastas, i + 1, least, num_mers + 1,
                         Append(sequences,
                                Rstrip(fastas[i]) \o <<Underscore>>
                                \o Str(num_mers + 1) \o <<Newline>>
                                \o fastas[i + 1]))
         ELSE RenameLoop(fastas, i + 1, least, num_mers, sequences)

rename_kmers_above(text, least) ==
    LET renamed == RenameLoop(Readlines(text), 1, least + 1, 0, <<>>)
    IN  [written |-> Join(renamed.sequences), returned |-> renamed.num_mers]

\* What the function writes to output_kmers and what it returns.
rename_kmers(text, least) ==
    LET renamed == RenameLoop(Readlines(text), 1, least, 0, <<>>)
    IN  [written |-> Join(renamed.sequences), returned |-> renamed.num_mers]

\* A k-mer count file as the counter dumps it: for every k-mer a header
\* line '>count' and a line with the k-mer.
KmerSequences == {"ACGTA", "CGTAC"}

KmerCountValues == {KmerCutoff - 1, KmerCutoff, KmerCutoff + 1, 4 * KmerCutoff}

KmerEntry(count, kmer) == <<Greater>> \o Str(count) \o <<Newline, kmer, Newline>>

KmerEntries == {KmerEntry(n, k) : n \in KmerCountValues, k \in KmerSequences}

KmerFiles == {Join(entries) : entries \in SeqsUpTo(KmerEntries, MaxKmers)}

Cutoffs == {KmerCutoff - 1, KmerCutoff, KmerCutoff + 1}

InitKmers ==
    /\ pc = "kmers"
    /\ RunIdle
    /\ TablesIdle
    /\ SampleLocalsInit
    /\ ColumnIdle
    /\ stdout = <<>>
    /\ present = FALSE
    /\ input_kmers \in KmerFiles
    /\ output_kmers = <<>>
    /\ cutoff \in Cutoffs
    /\ fastq_files = {}
    /\ forward_id = ""
    /\ reverse_id = ""

RenameKmers ==
    /\ pc = "kmers"
    /\ output_kmers' = rename_kmers(input_kmers, cutoff).written
    /\ num_kmers' = rename_kmers(input_kmers, cutoff).returned
    /\ pc' = "kmers_done"
    /\ UNCHANGED <<paired_reads, unpaired_reads, idx, report, tmpdirs, db_files,
                   screen_output, genus, snv_list, max_kmers, sample_database,
                   steps, failed, bam, gene_alleles_to_use, pileup, cycle,
                   column, base_dict, environment, startup, references, stdout,
                   present, input_kmers, cutoff, fastq_files, forward_id,
                   reverse_id>>

NextKmers == RenameKmers

SpecKmers == InitKmers /\ [][NextKmers]_vars


\* The k-mers of the input file, in file order: header line and sequence
\* line of each.
C23_Input ==
    LET lines == Readlines(input_kmers)
    IN  [k \in 1 .. Len(lines) \div 2 |->
            [count |-> int(SubSeq(lines[2 * k - 1], 2, Len(lines[2 * k - 1]))),
             sequence |-> lines[2 * k]]]

C23_Kept == SelectSeq(C23_Input, LAMBDA kmer : kmer.count >= cutoff)

C23_Header(count, index) ==
    <<Greater>> \o Str(count) \o <<Underscore>> \o Str(index) \o <<Newline>>

C23_Headers ==
    LET lines == Readlines(output_kmers)
    IN  [k \in 1 .. Len(lines) \div 2 |-> lines[2 * k - 1]]

\* C23: rename_kmers keeps exactly the k-mers whose count is >= cutoff, in
\* input order, and returns how many they are; the j-th kept k-mer gets the
\* header '>count_j' followed by its own sequence line, so the headers of
\* the output are pairwise distinct.
C23_KeepsSolidKmersWithUniqueHeaders ==
    pc = "kmers_done" =>
        LET lines == Readlines(output_kmers)
        IN  /\ num_kmers = Len(C23_Kept)
            /\ Len(lines) = 2 * Len(C23_Kept)
            /\ \A j \in DOMAIN C23_Kept :
                  /\ lines[2 * j - 1] = C23_Header(C23_Kept[j].count, j)
                  /\ lines[2 * j] = C23_Kept[j].sequence
            /\ \A j, k \in DOMAIN C23_Headers :
                  C23_Headers[j] = C23_Headers[k] => j = k

\* Three k-mers, the second below the cutoff, the other two with the same
\* count and the same sequence.
C23_Witness ==
    /\ pc = "kmers_done"
    /\ cutoff = KmerCutoff
    /\ Len(C23_Input) = 3
    /\ C23_Input[1] = C23_Input[3]
    /\ C23_Input[1].count = 4 * KmerCutoff
    /\ C23_Input[2].count = KmerCutoff - 1
    /\ num_kmers = 2


\* The file the paired path hands to samtools faidx, to bbmap.sh as ref, to
\* get_contig_names and to SeqIO.parse (lines 512, 515, 529, 546).
C24_MappedReference == DbFile(genus)

\* C24: in the paired path the reference the reads were extracted with (the
\* selected sample database) is the file that is then indexed, mapped
\* against and read for contig names; for genus 'NA' that file is the
\* combined reference.
C24_OneReferencePerSample ==
    pc \in {"p_map", "p_select"} =>
        /\ sample_database = C24_MappedReference
        /\ genus = <<"NA">> => C24_MappedReference = Combined


(***************************************************************************)
(* find_paired_reads and find_unpaired_reads applied to one directory.     *)
(***************************************************************************)
MaxFiles == 3
MaxIds == 2

\* Defaults of --forward_id and --reverse_id.
ReadIds == {"_R1", "_R2"}

\* name.replace(old, new) for a one-token old.
Replace(name, old, new) ==
    [k \in DOMAIN name |-> IF name[k] = old THEN new ELSE name[k]]

\* os.path.isfile(name) in a directory that holds the files directory.
isfile(name, directory) == name \in directory

\* The loop of find_paired_reads over what glob returned.
RECURSIVE PairLoop(_, _, _, _, _, _)
PairLoop(listing, i, directory, fid, rid, pair_list) ==
    IF i > Len(listing) THEN pair_list
    ELSE LET name == listing[i]
         IN  IF In(fid, name) /\ isfile(Replace(name, fid, rid), directory)
             THEN PairLoop(listing, i + 1, directory, fid, rid,
                           Append(pair_list, <<name, Replace(name, fid, rid)>>))
             ELSE PairLoop(listing, i + 1, directory, fid, rid, pair_list)

find_paired_reads(listing, directory, fid, rid) ==
    PairLoop(listing, 1, directory, fid, rid, <<>>)

\* The loop of find_unpaired_reads.
RECURSIVE ReadLoop(_, _, _, _, _, _)
ReadLoop(listing, i, directory, fid, rid, read_list) ==
    IF i > Len(listing) THEN read_list
    ELSE LET name == listing[i]
             unpaired ==
                 IF ~In(fid, name) /\ ~In(rid, name) THEN TRUE
                 ELSE IF In(fid, name) /\ ~isfile(Replace(name, fid, rid), directory)
                      THEN TRUE
                 ELSE IF In(rid, name) /\ ~isfile(Replace(name, rid, fid), directory)
                      THEN TRUE
                 ELSE FALSE
         IN  ReadLoop(listing, i + 1, directory, fid, rid,
                      IF unpaired THEN Append(read_list, name) ELSE read_list)

find_unpaired_reads(listing, directory, fid, rid) ==
    ReadLoop(listing, 1, directory, fid, rid, <<>>)

\* File names '<sample><ids>.fastq' with up to MaxIds read-id tokens, and
\* directories of up to MaxFiles such files.
FastqNames == {<<"sample">> \o ids \o <<".fastq">> : ids \in SeqsUpTo(ReadIds, MaxIds)}

RECURSIVE SubsetsUpTo(_, _)
SubsetsUpTo(S, n) ==
    IF n = 0 THEN {{}}
    ELSE LET smaller == SubsetsUpTo(S, n - 1)
         IN  smaller \cup {s \cup {x} : s \in smaller, x \in S}

Directories == SubsetsUpTo(FastqNames, MaxFiles)

\* glob.glob: the files of the directory in some order.
Listings(directory) ==
    {l \in SeqsUpTo(directory, Cardinality(directory)) :
        Len(l) = Cardinality(directory) /\ Range(l) = directory}

InitDiscover ==
    /\ pc = "discover"
    /\ paired_reads = <<>>
    /\ unpaired_reads = <<>>
    /\ idx = 0
    /\ report = <<>>
    /\ tmpdirs = {}
    /\ db_files = {}
    /\ path = {}
    /\ errors = <<>>
    /\ exit_code = None
    /\ output_dir = FALSE
    /\ TablesIdle
    /\ SampleLocalsInit
    /\ ColumnIdle
    /\ stdout = <<>>
    /\ present = FALSE
    /\ input_kmers = <<>>
    /\ output_kmers = <<>>
    /\ cutoff = 0
    /\ fastq_files \in Directories
    /\ forward_id \in ReadIds
    /\ reverse_id \in ReadIds \ {forward_id}

\* Lines 946-947.
DiscoverReads ==
    /\ pc = "discover"
    /\ \E listing \in Listings(fastq_files) :
          /\ paired_reads' =
                 find_paired_reads(listing, fastq_files, forward_id, reverse_id)
          /\ unpaired_reads' =
                 find_unpaired_reads(listing, fastq_files, forward_id, reverse_id)
    /\ pc' = "discovered"
    /\ UNCHANGED <<idx, report, tmpdirs, db_files, screen_output, genus, snv_list,
                   max_kmers, sample_database, steps, failed, bam,
                   gene_alleles_to_use, pileup, cycle, num_kmers, column,
                   base_dict, environment, utilities, startup, references>>

NextDiscover == DiscoverReads

SpecDiscover == InitDiscover /\ [][NextDiscover]_vars

\* How often a file is a member of a returned pair, and how often it is in
\* the unpaired list.
C25_InPairs(name) ==
    Cardinality({<<i, j>> \in (DOMAIN paired_reads) \X {1, 2} :
                    paired_reads[i][j] = name})

C25_InUnpaired(name) ==
    Cardinality({k \in DOMAIN unpaired_reads : unpaired_reads[k] = name})

\* C25: for any directory of FASTQ files and distinct forward and reverse
\* tokens the two functions partition the files: every file is a member of
\* exactly one returned pair or exactly once in the unpaired list, never
\* both and never neither.
C25_PairedAndUnpairedPartitionFiles ==
    pc = "discovered" =>
        \A name \in fastq_files : C25_InPairs(name) + C25_InUnpaired(name) = 1


C26_FailedRows == {i \in 2 .. Len(report) : report[i].genus = ErrorGenus}

\* C26: every row of the report written for a failed sample (genus 'Error
\* processing sample') has NumContamSNVs 0, NumUniqueKmers 0 and
\* ContamStatus False.
C26_FailedSampleNotContaminated ==
    \A i \in C26_FailedRows :
        /\ report[i].numcontamsnvs = Whole(0)
        /\ report[i].numuniquekmers = 0
        /\ report[i].contamstatus = FALSE

\* An unpaired sample that failed after a cycle had counted k-mers, in a run
\* in which a paired sample had failed before.
C26_Witness ==
    /\ pc = "u_end"
    /\ "kmers" \in steps
    /\ Cardinality(C26_FailedRows) = 2
    /\ LastRow.genus = ErrorGenus

=============================================================================
